---- MODULE Spec2Model ----
(***************************************************************************)
(* A model of the SimpExtrac job-scraping platform: the Celery task        *)
(* scrape_jobs_task with its ScrapeJobRun / TaskProgress records, the      *)
(* housekeeping tasks, TaskProgress.update_progress, the database sync of  *)
(* JobDataManager and the per-source scrape_jobs loops.                    *)
(***************************************************************************)
EXTENDS Integers, Sequences, FiniteSets, TLC

VARIABLES
    \* ---- scrape_jobs_task (celery_tasks/tasks.py) ----
    pc,             \* position of the task body
    args,           \* [search_criteria, scheduled_job_id] of the invocation
    progress,       \* the in-memory TaskProgress instance of the task / caller
    taskProgress,   \* stored TaskProgress rows of this task id (a set, 0 or 1 row)
    job_run,        \* the in-memory ScrapeJobRun instance
    scrapeJobRuns,  \* stored ScrapeJobRun rows of this task id (a set, 0 or 1 row)
    loc,            \* the locals of the task body
    jobCount,       \* Job.objects.count()
    companyCount,   \* Company.objects.count()
    schedLastRun,   \* ScheduledScrapeJob id -> last_run stamped
    \* ---- TaskProgress.update_progress called directly ----
    lastCall,       \* arguments and outcome of the last update_progress call
    \* ---- JobDataManager.save_to_django_db ----
    companies,      \* Company rows
    jobs,           \* Job rows
    processed,      \* postings handed to save_to_django_db so far, in order
    \* ---- housekeeping tasks ----
    runTable,       \* owner (scheduled job id, 0 = manual) -> started_at of its runs
    progressTable,  \* TaskProgress rows: set of [task_id, started_at]
    now,            \* wall clock, in hours
    cleanup,        \* outcome of the last housekeeping task
    \* ---- source scrapers ----
    scrapeIn,       \* [source, n, page, navOk] of a scrape_jobs call
    scrapeOut,       \* its result
    \* ---- challenge detection (scraper/cloudflare_bypass.py, indeed_scraper.py) ----
    detect,   \* a challenge check: the driver's behaviour and the outcome of the check
    \* ---- URL-based source selection (jobs/frontend_views.py, scraper/tasks.py) ----
    control,   \* the last scraper_control request and what it dispatched
    urlTask,   \* a run_scraper_url_task call: its arguments, position and locals
    scraperStats,   \* ScraperStats rows of today, by source
    \* ---- flat file store (scraper/data_manager.py) ----
    fileStore,   \* the flat file at storage_path: whether it exists and what it holds
    fileCall,   \* the save_jobs call made on it: the list handed over and the outcome
    loaded,   \* what load_jobs returned afterwards
    \* ---- email filtering (scraper/company_info_extractor.py) ----
    emailCheck,   \* the last email filtering call and its result
    \* ---- company website search (scraper/company_info_extractor.py) ----
    websiteSearch,   \* the last search_company_website call: its inputs, the pages it requested, its result
    \* ---- browser sessions of a scrape_jobs call (scraper/base_scraper.py, cloudflare_bypass.py) ----
    scraper,   \* a scraper instance inside scrape_jobs: arguments, position, self.driver, result
    sessions,   \* the browser sessions launched so far, in launch order
    bypass,   \* the CloudflareBypass object of a bypass in progress
    \* ---- dashboard views (jobs/frontend_views.py) ----
    periodicTasks,   \* rows of django_celery_beat's PeriodicTask table, in creation order
    schedules,   \* IntervalSchedule and CrontabSchedule rows
    jobRows,   \* ids of the Job rows the dashboard can delete
    http,   \* the last request handled by a view and its response, <<>> before any
    \* ---- concurrent database syncs (scraper/data_manager.py) ----
    runs,   \* concurrent save_to_django_db runs: each one's posting, position and the company it holds
    \* ---- enhance_job_with_company_info ----
    enhanced,   \* the enhance_job_with_company_info call made, <<>> before it
    \* ---- periodic entries fired by the beat scheduler ----
    beat,   \* the beat scheduler over the PeriodicTask table, <<>> before a schedule is submitted
    \* ---- jobs_found / companies_found of a run ----
    tally,   \* one run's count of what it found, beside other writers of the tables
    \* ---- two runs on one ScraperStats row ----
    statsRuns   \* the run_scraper_url_task executions of one source on one day

taskVars    == <<pc, args, progress, taskProgress, job_run, scrapeJobRuns, loc,
                 jobCount, companyCount, schedLastRun>>
callVars    == <<lastCall>>
dbVars      == <<companies, jobs, processed>>
cleanupVars == <<runTable, progressTable, now, cleanup>>
scrapeVars  == <<scrapeIn, scrapeOut>>
detectVars == <<detect>>
urlSourceVars == <<control, urlTask, scraperStats>>
fileVars == <<fileStore, fileCall, loaded>>
emailVars == <<emailCheck>>
websiteVars == <<websiteSearch>>
sessionVars == <<scraper, sessions, bypass>>
viewVars == <<periodicTasks, schedules, jobRows, http>>
raceVars == <<runs>>
enhanceVars == <<enhanced>>
beatVars == <<beat>>
tallyVars == <<tally>>
statsRunsVars == <<statsRuns>>
vars == <<pc, args, progress, taskProgress, job_run, scrapeJobRuns, loc,
          jobCount, companyCount, schedLastRun, lastCall, companies, jobs,
          processed, runTable, progressTable, now, cleanup, scrapeIn, scrapeOut,
          detect,
          control, urlTask, scraperStats,
          fileStore, fileCall, loaded,
          emailCheck,
          websiteSearch,
          scraper, sessions, bypass,
          periodicTasks, schedules, jobRows, http,
          runs,
          enhanced,
          beat,
          tally,
          statsRuns>>

\* Each specification below drives one part of the program; the variables of
\* the other parts rest at these values.
TaskIdle ==
    /\ pc = "idle"
    /\ args = <<>>
    /\ job_run = <<>>
    /\ scrapeJobRuns = {}
    /\ loc = <<>>
    /\ jobCount = 0
    /\ companyCount = 0
    /\ schedLastRun = <<>>
ProgressIdle == progress = <<>> /\ taskProgress = {}
CallIdle == lastCall = <<>>
DbIdle == companies = {} /\ jobs = {} /\ processed = <<>>
CleanupIdle == runTable = <<>> /\ progressTable = {} /\ now = 0 /\ cleanup = <<>>
ScrapeIdle == scrapeIn = <<>> /\ scrapeOut = <<>>
DetectIdle == detect = <<>>
UrlSourceIdle == control = <<>> /\ urlTask = <<>> /\ scraperStats = {}
FileIdle == fileStore = <<>> /\ fileCall = <<>> /\ loaded = <<>>
EmailIdle == emailCheck = <<>>
WebsiteIdle == websiteSearch = <<>>
SessionIdle == scraper = <<>> /\ sessions = <<>> /\ bypass = <<>>
ViewIdle == periodicTasks = <<>> /\ schedules = {} /\ jobRows = {} /\ http = <<>>
RaceIdle == runs = <<>>
EnhanceIdle == enhanced = <<>>
BeatIdle == beat = <<>>
TallyIdle == tally = <<>>
StatsRunsIdle == statsRuns = <<>>

----------------------------------------------------------------------------
(* Bounds of the model *)

MaxJobsBound   == 2     \* largest max_jobs an invocation asks for
MaxSources     == 2     \* longest 'sources' list of a legacy invocation
MaxInitialJobs == 1     \* Job / Company rows present before the task starts
MaxBatch       == 2     \* longest jobs_list handed to save_to_django_db
MaxProcessed   == 2     \* postings handed to save_to_django_db in one behaviour
RunSlack       == 2     \* run counts range up to this far around the retention limits
AgeSlack       == 2     \* the clock stands this many hours past the progress cutoff
MaxProgressRows == 2    \* TaskProgress rows present when the housekeeping runs
MaxCards       == 3     \* job cards on a result page
MaxRequested   == 3     \* largest number of postings a scrape asks for

----------------------------------------------------------------------------
(* Small helpers *)

None == {}              \* an absent optional argument; Some(v) is {v}
Some(v) == {v}
TheValue(o) == CHOOSE v \in o : TRUE

Min(a, b) == IF a < b THEN a ELSE b
Max(a, b) == IF a > b THEN a ELSE b

\* dict.get(key, default)
Get(d, k, default) == IF k \in DOMAIN d THEN d[k] ELSE default

SeqsUpTo(S, n) == UNION {[1..k -> S] : k \in 0..n}

SourceNames == {"indeed", "glassdoor"}

----------------------------------------------------------------------------
(* TaskProgress (celery_tasks/models.py) *)

\* The concrete columns of TaskProgress.
TaskProgressFields ==
    {"id", "task_id", "current_step", "progress_percentage", "total_sources",
     "completed_sources", "current_source", "jobs_scraped", "companies_found",
     "started_at", "updated_at"}

\* PositiveIntegerField columns: the database rejects a negative value.
TaskProgressPositive ==
    {"progress_percentage", "total_sources", "completed_sources",
     "jobs_scraped", "companies_found"}

\* The columns whose values the model carries.
ProgressCols ==
    {"current_step", "progress_percentage", "total_sources",
     "completed_sources", "current_source", "jobs_scraped", "companies_found"}

\* TaskProgress.objects.create(task_id, current_step, total_sources)
NewProgress(step, total) ==
    [current_step |-> step, progress_percentage |-> 0, total_sources |-> total,
     completed_sources |-> 0, current_source |-> "", jobs_scraped |-> 0,
     companies_found |-> 0]

\* min(100, max(0, percentage))
Clamp(percentage) == Min(100, Max(0, percentage))

\* update_progress(step, percentage, **kwargs) on instance inst whose stored
\* rows are rows; dbUp says whether the database accepts the write at all.
\* Returns the instance, the stored rows and whether save() returned.
\*  - "if step:" leaves current_step alone for None and for ''
\*  - "if percentage is not None:" clamps
\*  - every keyword that names an attribute is set, unclamped
\*  - save(update_fields=[current_step, progress_percentage, updated_at] + keywords)
\*    raises ValueError for a name that is no column, IntegrityError for a
\*    negative PositiveIntegerField, DatabaseError when no row is updated.
UpdateProgress(inst, rows, step, percentage, kwargs, dbUp) ==
    LET i1 == IF step # "" THEN [inst EXCEPT !.current_step = step] ELSE inst
        i2 == IF percentage # None
              THEN [i1 EXCEPT !.progress_percentage = Clamp(TheValue(percentage))]
              ELSE i1
        i3 == [f \in DOMAIN i2 |-> IF f \in DOMAIN kwargs THEN kwargs[f] ELSE i2[f]]
        update_fields == {"current_step", "progress_percentage", "updated_at"}
                            \cup DOMAIN kwargs
        written == update_fields \cap ProgressCols
        ok == /\ dbUp
              /\ rows # {}
              /\ update_fields \subseteq TaskProgressFields
              /\ \A f \in written \cap TaskProgressPositive : i3[f] >= 0
    IN  [inst |-> i3,
         rows |-> IF ok
                  THEN {[f \in ProgressCols |->
                            IF f \in written THEN i3[f] ELSE r[f]] : r \in rows}
                  ELSE rows,
         ok   |-> ok]

NoKw == <<>>    \* no keyword arguments

----------------------------------------------------------------------------
(* scrape_jobs_task (celery_tasks/tasks.py) *)

\* The search criteria the URL-based scrape form dispatches (scraper_control)
UrlCriteria ==
    {[filtered_url |-> "https://www." \o s \o ".com/jobs", max_jobs |-> n,
      source |-> s, scrape_type |-> "url_based"] :
        s \in SourceNames, n \in 1..MaxJobsBound}

\* The legacy criteria (trigger_manual_scrape)
LegacyCriteria ==
    {[job_title |-> "dev", location |-> "NY", sources |-> ss, max_jobs |-> n] :
        ss \in SeqsUpTo(SourceNames, MaxSources), n \in 1..MaxJobsBound}

\* ScrapeJobRun.objects.create(..., status='running') with the column defaults
NewJobRun ==
    [status |-> "running", jobs_found |-> 0, companies_found |-> 0,
     errors |-> <<>>, result_summary |-> <<>>, completed |-> FALSE]

NoLocals ==
    [total_jobs_found |-> 0, total_companies_found |-> 0, errors |-> <<>>,
     source_results |-> <<>>, sourcesBound |-> FALSE, sources |-> <<>>,
     i |-> 0, exc |-> "", calls |-> <<>>]

\* Parameters of run_scraper_url_task(filtered_url, num_jobs, source=None)
UrlTaskParams   == {"filtered_url", "num_jobs", "source"}
UrlTaskRequired == {"filtered_url", "num_jobs"}

\* A call by keywords binds iff every keyword is a parameter and every
\* parameter without default is given; otherwise Python raises TypeError.
CallBinds(params, required, keywords) ==
    keywords \subseteq params /\ required \subseteq keywords

\* 'success' if not errors or total_jobs_found > 0 else 'failed'
FinalStatusGe(errors, total_jobs_found) ==
    IF errors = <<>> \/ total_jobs_found >= 0 THEN "success" ELSE "failed"
FinalStatus(errors, total_jobs_found) ==
    IF errors = <<>> \/ total_jobs_found > 0 THEN "success" ELSE "failed"

otherThanTask == <<lastCall, companies, jobs, processed, runTable,
                   progressTable, now, cleanup, scrapeIn, scrapeOut, detectVars, urlSourceVars, fileVars, emailVars, websiteVars, sessionVars, viewVars, raceVars, enhanceVars, beatVars, tallyVars, statsRunsVars>>

TaskInit ==
    /\ pc = "import"
    /\ args \in [search_criteria : UrlCriteria \cup LegacyCriteria,
                 scheduled_job_id : {0, 1}]
    /\ progress = NewProgress("", 0)
    /\ taskProgress = {}
    /\ job_run = NewJobRun
    /\ scrapeJobRuns = {}
    /\ loc = NoLocals
    /\ jobCount \in 0..MaxInitialJobs
    /\ companyCount \in 0..MaxInitialJobs
    /\ schedLastRun = [j \in {1} |-> FALSE]
    /\ CallIdle /\ DbIdle /\ CleanupIdle /\ ScrapeIdle /\ DetectIdle /\ UrlSourceIdle /\ FileIdle /\ EmailIdle /\ WebsiteIdle /\ SessionIdle /\ ViewIdle /\ RaceIdle /\ EnhanceIdle /\ BeatIdle /\ TallyIdle /\ StatsRunsIdle

Criteria == args.search_criteria

\* Leaving the try block by an exception: the handler runs next.
Raise(kind) == [loc EXCEPT !.exc = kind]

\* lines 29-31: the function-level imports.  scraper/tasks.py defines only
\* run_scraper_url_task, so importing run_scraper_task raises ImportError
\* there; the other outcome is a deployment whose scraper.tasks has the
\* legacy entry point the callers expect.
Import ==
    /\ pc = "import"
    /\ \E found \in BOOLEAN :
          pc' = IF found THEN "create_progress" ELSE "raised"
    /\ UNCHANGED <<args, progress, taskProgress, job_run, scrapeJobRuns, loc,
                   jobCount, companyCount, schedLastRun>>
    /\ UNCHANGED otherThanTask

\* lines 36-40: TaskProgress.objects.create (task_id is unique: a redelivered
\* task id, or an unavailable database, raises here, outside the try block)
CreateProgress ==
    /\ pc = "create_progress"
    /\ \E dbUp \in BOOLEAN :
          IF dbUp
          THEN LET p == NewProgress("Initializing scrape job...",
                                    Len(Get(Criteria, "sources", <<"indeed">>)))
               IN  /\ progress' = p
                   /\ taskProgress' = {p}
                   /\ pc' = "create_run"
          ELSE /\ pc' = "raised"
               /\ UNCHANGED <<progress, taskProgress>>
    /\ UNCHANGED <<args, job_run, scrapeJobRuns, loc, jobCount, companyCount,
                   schedLastRun>>
    /\ UNCHANGED otherThanTask

\* lines 43-49: ScrapeJobRun.objects.create(status='running')
CreateRun ==
    /\ pc = "create_run"
    /\ \E dbUp \in BOOLEAN :
          IF dbUp
          THEN /\ job_run' = NewJobRun
               /\ scrapeJobRuns' = {NewJobRun}
               /\ pc' = "branch"
          ELSE /\ pc' = "raised"
               /\ UNCHANGED <<job_run, scrapeJobRuns>>
    /\ UNCHANGED <<args, progress, taskProgress, loc, jobCount, companyCount,
                   schedLastRun>>
    /\ UNCHANGED otherThanTask

\* dict[k] = v
DictSet(d, k, v) == [x \in DOMAIN d \cup {k} |-> IF x = k THEN v ELSE d[x]]

\* lines 55-66 and 123-138: read scrape_type, bind the branch's locals and
\* make the first progress update
Branch ==
    /\ pc = "branch"
    /\ \E dbUp \in BOOLEAN :
        IF Get(Criteria, "scrape_type", "legacy") = "url_based"
        THEN LET u == UpdateProgress(progress, taskProgress,
                          "Starting URL-based scraping", Some(10), NoKw, dbUp)
             IN  /\ progress' = u.inst
                 /\ taskProgress' = u.rows
                 /\ IF u.ok
                    THEN pc' = "url_scrape" /\ loc' = loc
                    ELSE pc' = "handler" /\ loc' = Raise("DatabaseError")
        ELSE LET l1 == [loc EXCEPT !.sourcesBound = TRUE,
                                   !.sources = Get(Criteria, "sources", <<"indeed">>)]
                 u == UpdateProgress(progress, taskProgress,
                          "Starting legacy scraping", Some(5), NoKw, dbUp)
             IN  /\ progress' = u.inst
                 /\ taskProgress' = u.rows
                 /\ IF u.ok
                    THEN pc' = "legacy_loop" /\ loc' = l1
                    ELSE pc' = "handler"
                         /\ loc' = [l1 EXCEPT !.exc = "DatabaseError"]
    /\ UNCHANGED <<args, job_run, scrapeJobRuns, jobCount, companyCount,
                   schedLastRun>>
    /\ UNCHANGED otherThanTask

\* lines 113-119: the except clause of the URL-based branch
UrlFailed(source) ==
    [loc EXCEPT !.errors = <<[source |-> source,
                              error |-> "Error in URL-based scraping"]>>,
                !.total_jobs_found = 0,
                !.total_companies_found = 0,
                !.source_results = <<>>]

\* lines 68-119: the URL-based scrape.  The task calls
\* run_scraper_url_task(filtered_url=, max_jobs=, source=).
UrlScrape ==
    /\ pc = "url_scrape"
    /\ LET source == Get(Criteria, "source", "indeed")
           max_jobs == Get(Criteria, "max_jobs", 25)
       IN \E dbUp1 \in BOOLEAN, dbUp2 \in BOOLEAN, j \in 0..max_jobs :
          \E c \in 0..j :
          LET u1 == UpdateProgress(progress, taskProgress, "Processing",
                        Some(30), [current_source |-> source], dbUp1)
              binds == CallBinds(UrlTaskParams, UrlTaskRequired,
                                 {"filtered_url", "max_jobs", "source"})
              u2 == UpdateProgress(u1.inst, u1.rows,
                        "URL-based scraping completed", Some(90),
                        [jobs_scraped |-> j, companies_found |-> c], dbUp2)
          IN  IF ~u1.ok
              THEN /\ progress' = u1.inst
                   /\ taskProgress' = u1.rows
                   /\ loc' = UrlFailed(source)
                   /\ UNCHANGED <<jobCount, companyCount>>
              ELSE IF ~binds
              THEN \* TypeError: unexpected keyword argument 'max_jobs'
                   /\ progress' = u1.inst
                   /\ taskProgress' = u1.rows
                   /\ loc' = UrlFailed(source)
                   /\ UNCHANGED <<jobCount, companyCount>>
              ELSE /\ jobCount' = jobCount + j
                   /\ companyCount' = companyCount + c
                   /\ progress' = u2.inst
                   /\ taskProgress' = u2.rows
                   /\ loc' = IF u2.ok
                             THEN [loc EXCEPT
                                     !.total_jobs_found = j,
                                     !.total_companies_found = c,
                                     !.source_results =
                                        DictSet(<<>>, source,
                                          [jobs_found |-> j,
                                           companies_found |-> c,
                                           success |-> TRUE]),
                                     !.errors = <<>>]
                             ELSE UrlFailed(source)
    /\ pc' = "finalize"
    /\ UNCHANGED <<args, job_run, scrapeJobRuns, schedLastRun>>
    /\ UNCHANGED otherThanTask

\* run_scraper_task(job_title, location, source, max_jobs): the legacy entry
\* point of the orchestration module.  It raises, or it saves up to max_jobs
\* new postings with at most as many new companies.
RunScraperTaskOutcomes(max_jobs) ==
    {[raised |-> TRUE, jobs |-> 0, companies |-> 0]}
    \cup {[raised |-> FALSE, jobs |-> j, companies |-> c] :
             j \in 0..max_jobs, c \in 0..max_jobs}

\* the except clause of one legacy source ending the loop instead of going
\* on to the next source
SourceFailedBreaking(l, source) ==
    [l EXCEPT !.errors = Append(@, [source |-> source, error |-> "str(e)",
                                     timestamp |-> "now"]),
              !.source_results = DictSet(@, source,
                                   [jobs_found |-> 0, companies_found |-> 0,
                                    success |-> FALSE, error |-> "str(e)"]),
              !.i = Len(l.sources)]

\* lines 188-207: the except clause of one legacy source
SourceFailed(l, source) ==
    [l EXCEPT !.errors = Append(@, [source |-> source, error |-> "str(e)",
                                     timestamp |-> "now"]),
              !.source_results = DictSet(@, source,
                                   [jobs_found |-> 0, companies_found |-> 0,
                                    success |-> FALSE, error |-> "str(e)"]),
              !.i = @ + 1]

\* lines 141-207: one iteration of the loop over the legacy sources
LegacySource ==
    /\ pc = "legacy_loop"
    /\ loc.i < Len(loc.sources)
    /\ LET i == loc.i
           n == Len(loc.sources)
           source == loc.sources[i + 1]
           max_jobs == Get(Criteria, "max_jobs", 25)
       IN \E dbUp1 \in BOOLEAN, dbUp2 \in BOOLEAN,
             o \in RunScraperTaskOutcomes(max_jobs \div n) :
          LET u1 == UpdateProgress(progress, taskProgress, "Scraping source",
                        Some(10 + ((i * 70) \div n)),
                        [current_source |-> source, completed_sources |-> i],
                        dbUp1)
              jobs_found == o.jobs
              companies_found == IF o.companies <= o.jobs THEN o.companies
                                 ELSE o.jobs
              \* the call of run_scraper_task and the slice it is given
              called == [loc EXCEPT !.calls =
                           Append(@, [source |-> source,
                                      max_jobs |-> max_jobs \div n])]
              l2 == [called EXCEPT
                       !.total_jobs_found = @ + jobs_found,
                       !.total_companies_found = @ + companies_found,
                       !.source_results = DictSet(@, source,
                            [jobs_found |-> jobs_found,
                             companies_found |-> companies_found,
                             success |-> TRUE])]
              u2 == UpdateProgress(u1.inst, u1.rows, "", None,
                        [jobs_scraped |-> l2.total_jobs_found,
                         companies_found |-> l2.total_companies_found,
                         completed_sources |-> i + 1], dbUp2)
          IN  IF ~u1.ok
              THEN /\ progress' = u1.inst
                   /\ taskProgress' = u1.rows
                   /\ loc' = SourceFailed(loc, source)
                   /\ UNCHANGED <<jobCount, companyCount>>
              ELSE IF o.raised
              THEN /\ progress' = u1.inst
                   /\ taskProgress' = u1.rows
                   /\ loc' = SourceFailed(called, source)
                   /\ UNCHANGED <<jobCount, companyCount>>
              ELSE /\ jobCount' = jobCount + jobs_found
                   /\ companyCount' = companyCount + companies_found
                   /\ progress' = u2.inst
                   /\ taskProgress' = u2.rows
                   /\ loc' = IF u2.ok THEN [l2 EXCEPT !.i = @ + 1]
                             ELSE SourceFailed(l2, source)
    /\ pc' = "legacy_loop"
    /\ UNCHANGED <<args, job_run, scrapeJobRuns, schedLastRun>>
    /\ UNCHANGED otherThanTask

\* lines 209-213: after the branch, the "Finalizing results..." update
FinalProgress ==
    /\ \/ pc = "finalize"
       \/ pc = "legacy_loop" /\ loc.i >= Len(loc.sources)
    /\ \E dbUp \in BOOLEAN :
          LET u == UpdateProgress(progress, taskProgress,
                       "Finalizing results...", Some(90), NoKw, dbUp)
          IN  /\ progress' = u.inst
              /\ taskProgress' = u.rows
              /\ IF u.ok
                 THEN pc' = "set_result" /\ loc' = loc
                 ELSE pc' = "handler" /\ loc' = Raise("DatabaseError")
    /\ UNCHANGED <<args, job_run, scrapeJobRuns, jobCount, companyCount,
                   schedLastRun>>
    /\ UNCHANGED otherThanTask

\* the number of source_results entries with success false
SourcesWithErrors(source_results) ==
    Cardinality({s \in DOMAIN source_results : ~source_results[s].success})

\* job_run.save(): every column is written from the instance; the
\* PositiveIntegerField columns reject a negative value
SaveJobRun(inst, rows, dbUp) ==
    LET ok == dbUp /\ inst.jobs_found >= 0 /\ inst.companies_found >= 0
    IN  [rows |-> IF ok THEN {inst} ELSE rows, ok |-> ok]

\* lines 215-229: store the outcome on the run.  The summary reads
\* len(sources), a local that only the legacy branch binds.
SetResult ==
    /\ pc = "set_result"
    /\ \E dbUp \in BOOLEAN :
          LET j1 == [job_run EXCEPT
                       !.status = FinalStatus(loc.errors, loc.total_jobs_found),
                       !.jobs_found = loc.total_jobs_found,
                       !.companies_found = loc.total_companies_found,
                       !.errors = loc.errors]
              j2 == [j1 EXCEPT
                       !.result_summary =
                          [total_jobs_found |-> loc.total_jobs_found,
                           total_companies_found |-> loc.total_companies_found,
                           sources_processed |-> Len(loc.sources),
                           sources_with_errors |->
                               SourcesWithErrors(loc.source_results),
                           source_results |-> loc.source_results],
                       !.completed = TRUE]
              sv == SaveJobRun(j2, scrapeJobRuns, dbUp)
          IN  IF ~loc.sourcesBound
              THEN \* UnboundLocalError: sources
                   /\ job_run' = j1
                   /\ scrapeJobRuns' = scrapeJobRuns
                   /\ pc' = "handler"
                   /\ loc' = Raise("UnboundLocalError")
              ELSE /\ job_run' = j2
                   /\ scrapeJobRuns' = sv.rows
                   /\ IF sv.ok
                      THEN pc' = "update_scheduled" /\ loc' = loc
                      ELSE pc' = "handler" /\ loc' = Raise("DatabaseError")
    /\ UNCHANGED <<args, progress, taskProgress, jobCount, companyCount,
                   schedLastRun>>
    /\ UNCHANGED otherThanTask

\* lines 231-238: stamp last_run of the scheduled job, if any
UpdateScheduled ==
    /\ pc = "update_scheduled"
    /\ \E dbUp \in BOOLEAN :
          IF args.scheduled_job_id # 0
             /\ args.scheduled_job_id \in DOMAIN schedLastRun
          THEN IF dbUp
               THEN /\ schedLastRun' =
                          [schedLastRun EXCEPT ![args.scheduled_job_id] = TRUE]
                    /\ pc' = "complete"
                    /\ loc' = loc
               ELSE /\ schedLastRun' = schedLastRun
                    /\ pc' = "handler"
                    /\ loc' = Raise("DatabaseError")
          ELSE \* no scheduled job, or DoesNotExist: a warning only
               /\ schedLastRun' = schedLastRun
               /\ pc' = "complete"
               /\ loc' = loc
    /\ UNCHANGED <<args, progress, taskProgress, job_run, scrapeJobRuns,
                   jobCount, companyCount>>
    /\ UNCHANGED otherThanTask

\* lines 240-255: the "Completed!" update and the return
CompleteProgress ==
    /\ pc = "complete"
    /\ \E dbUp \in BOOLEAN :
          LET u == UpdateProgress(progress, taskProgress, "Completed!",
                       Some(100), NoKw, dbUp)
          IN  /\ progress' = u.inst
              /\ taskProgress' = u.rows
              /\ IF u.ok
                 THEN pc' = "done" /\ loc' = loc
                 ELSE pc' = "handler" /\ loc' = Raise("DatabaseError")
    /\ UNCHANGED <<args, job_run, scrapeJobRuns, jobCount, companyCount,
                   schedLastRun>>
    /\ UNCHANGED otherThanTask

\* lines 257-267: the handler marks the run failed and saves it
HandlerSave ==
    /\ pc = "handler"
    /\ \E dbUp \in BOOLEAN :
          LET j1 == [job_run EXCEPT
                       !.status = "failed",
                       !.errors = <<[error |-> loc.exc, timestamp |-> "now"]>>,
                       !.completed = TRUE]
              sv == SaveJobRun(j1, scrapeJobRuns, dbUp)
          IN  /\ job_run' = j1
              /\ scrapeJobRuns' = sv.rows
              /\ pc' = IF sv.ok THEN "handler_progress" ELSE "raised"
    /\ UNCHANGED <<args, progress, taskProgress, loc, jobCount, companyCount,
                   schedLastRun>>
    /\ UNCHANGED otherThanTask

\* lines 269-276: the "Failed: ..." update, then the exception is re-raised
HandlerProgress ==
    /\ pc = "handler_progress"
    /\ \E dbUp \in BOOLEAN :
          LET u == UpdateProgress(progress, taskProgress, "Failed: str(e)",
                       Some(100), NoKw, dbUp)
          IN  /\ progress' = u.inst
              /\ taskProgress' = u.rows
    /\ pc' = "raised"
    /\ UNCHANGED <<args, job_run, scrapeJobRuns, loc, jobCount, companyCount,
                   schedLastRun>>
    /\ UNCHANGED otherThanTask

TaskNext ==
    \/ Import
    \/ CreateProgress
    \/ CreateRun
    \/ Branch
    \/ UrlScrape
    \/ LegacySource
    \/ FinalProgress
    \/ SetResult
    \/ UpdateScheduled
    \/ CompleteProgress
    \/ HandlerSave
    \/ HandlerProgress

\* One execution of scrape_jobs_task
SpecTask == TaskInit /\ [][TaskNext]_vars

----------------------------------------------------------------------------
(* Properties of scrape_jobs_task *)

Ended == pc \in {"done", "raised"}
IsUrlBased == Get(Criteria, "scrape_type", "legacy") = "url_based"

\* C1: a URL-based invocation for source 'indeed' with max_jobs = N ends
\* with a ScrapeJobRun of its task id whose status is 'success' (or 'failed'
\* with zero postings and recorded errors), whose jobs_found is in 0..N and
\* whose result_summary.source_results has the key 'indeed'.
C1_UrlRunRecorded ==
    (Ended /\ IsUrlBased /\ Criteria.source = "indeed") =>
        \E r \in scrapeJobRuns :
            /\ \/ r.status = "success"
               \/ r.status = "failed" /\ r.jobs_found = 0 /\ r.errors # <<>>
            /\ r.jobs_found \in 0..Criteria.max_jobs
            /\ "source_results" \in DOMAIN r.result_summary
            /\ "indeed" \in DOMAIN r.result_summary.source_results

\* C4: whenever the task ends by raising, a ScrapeJobRun of its task id is
\* stored with status 'failed' and the error in its errors list, and the
\* stored TaskProgress carries the failure step message.
C4_RaiseLeavesFailureRecord ==
    pc = "raised" =>
        /\ \E r \in scrapeJobRuns : r.status = "failed" /\ r.errors # <<>>
        /\ \E p \in taskProgress : p.current_step = "Failed: str(e)"

\* C5: a run is stored first with status 'running', and once its stored
\* status is 'success' or 'failed' no later step stores a different status.
C5_FinalisedOnce ==
    [][/\ (scrapeJobRuns = {} =>
               \A r \in scrapeJobRuns' : r.status = "running")
       /\ \A r \in scrapeJobRuns :
             r.status \in {"success", "failed"} =>
                 \A r2 \in scrapeJobRuns' : r2.status = r.status]_vars

\* C6: a stored run with status 'success' has no errors or at least one job
\* found, and the run stored by the finalisation is 'failed' when there is an
\* error and no job was found.
C6_SuccessNeedsJobsOrNoErrors ==
    \A r \in scrapeJobRuns :
        /\ r.status = "success" => (r.errors = <<>> \/ r.jobs_found >= 1)
        /\ (pc = "update_scheduled" /\ loc.errors # <<>>
              /\ loc.total_jobs_found = 0) => r.status = "failed"

\* a run stored as 'success' although a source failed, because jobs were found
C6_Witness ==
    \E r \in scrapeJobRuns :
        r.status = "success" /\ r.errors # <<>> /\ r.jobs_found >= 1

----------------------------------------------------------------------------
(* TaskProgress.update_progress called by any caller *)

StepInputs == {"", "Scraping Indeed..."}
PercentageInputs == {-5, 0, 50, 100, 150}
KwargInputs ==
    {NoKw}
    \cup {[jobs_scraped |-> v] : v \in {-1, 3}}
    \cup {[progress_percentage |-> v] : v \in PercentageInputs}
    \cup {[current_source |-> "indeed", completed_sources |-> 1]}
    \cup {[eta |-> 5]}

otherThanCall == <<pc, args, job_run, scrapeJobRuns, loc, jobCount,
                   companyCount, schedLastRun, companies, jobs, processed,
                   runTable, progressTable, now, cleanup, scrapeIn, scrapeOut, detectVars, urlSourceVars, fileVars, emailVars, websiteVars, sessionVars, viewVars, raceVars, enhanceVars, beatVars, tallyVars, statsRunsVars>>

\* a TaskProgress row as objects.create(task_id=...) stores it
CallInit ==
    /\ progress = NewProgress("Starting...", 0)
    /\ taskProgress = {NewProgress("Starting...", 0)}
    /\ lastCall = <<>>
    /\ TaskIdle /\ DbIdle /\ CleanupIdle /\ ScrapeIdle /\ DetectIdle /\ UrlSourceIdle /\ FileIdle /\ EmailIdle /\ WebsiteIdle /\ SessionIdle /\ ViewIdle /\ RaceIdle /\ EnhanceIdle /\ BeatIdle /\ TallyIdle /\ StatsRunsIdle

\* progress.update_progress(step, percentage, **kwargs)
UpdateProgressCall ==
    /\ \E step \in StepInputs,
          percentage \in {None} \cup {Some(v) : v \in PercentageInputs},
          kwargs \in KwargInputs :
          LET u == UpdateProgress(progress, taskProgress, step, percentage,
                                  kwargs, TRUE)
          IN  /\ progress' = u.inst
              /\ taskProgress' = u.rows
              /\ lastCall' = [step |-> step, percentage |-> percentage,
                              kwargs |-> kwargs, ok |-> u.ok]
    /\ UNCHANGED otherThanCall

CallNext == UpdateProgressCall

\* Any sequence of update_progress calls on one TaskProgress
SpecProgress == CallInit /\ [][CallNext]_vars

\* C7: after any sequence of update_progress calls, with any percentage and
\* any keyword fields, the stored progress_percentage is in 0..100; a
\* percentage argument below 0 is stored as 0 and one above 100 as 100.
C7_PercentageClamped ==
    \A p \in taskProgress :
        /\ p.progress_percentage \in 0..100
        /\ \A v \in PercentageInputs :
              ("percentage" \in DOMAIN lastCall /\ lastCall.percentage = Some(v)) =>
                  /\ v < 0 => p.progress_percentage = 0
                  /\ v > 100 => p.progress_percentage = 100

----------------------------------------------------------------------------
(* JobDataManager.save_to_django_db (scraper/data_manager.py) *)

\* A missing key, None and '' are all falsy; the model writes them "" (and 0
\* for a missing scraped_at).
Truthy(x) == x # ""

\* The postings a scrape can hand over.  Each source has its own posting URL.
PostingUrls == {"https://www.indeed.com/viewjob?jk=1",
                "https://www.linkedin.com/jobs/view/1"}
SourceOfUrl(u) == IF u = "https://www.indeed.com/viewjob?jk=1"
                  THEN "Indeed" ELSE "LinkedIn"
\* (url, scraped_at) of a listing: scraped_at is absent or the time of the
\* source's scrape
Listings ==
    {<<"https://www.indeed.com/viewjob?jk=1", 0>>,
     <<"https://www.indeed.com/viewjob?jk=1", 5>>,
     <<"https://www.linkedin.com/jobs/view/1", 0>>,
     <<"https://www.linkedin.com/jobs/view/1", 6>>}
\* (company_website, company_email) found by the enrichment
Contacts ==
    {<<"", "">>, <<"https://acme.com", "">>,
     <<"https://acme.io", "info@acme.io">>, <<"", "jobs@acme.com">>}
Postings ==
    {[title |-> t, company |-> c, location |-> "Remote",
      description |-> "Build things", url |-> l[1], source |-> SourceOfUrl(l[1]),
      scraped_at |-> l[2], company_website |-> w[1], company_email |-> w[2]] :
        t \in {"", "Developer"}, c \in {"Acme", "Bolt"}, l \in Listings,
        w \in Contacts}

\* lines 97-106: an existing company takes a website / email only into an
\* empty field
BackfillOverwrite(company, job_data) ==
    [company EXCEPT
        !.company_website = IF Truthy(job_data.company_website)
                            THEN job_data.company_website ELSE @,
        !.company_email = IF Truthy(job_data.company_email)
                          THEN job_data.company_email ELSE @]
Backfill(company, job_data) ==
    [company EXCEPT
        !.company_website = IF Truthy(job_data.company_website) /\ ~Truthy(@)
                            THEN job_data.company_website ELSE @,
        !.company_email = IF Truthy(job_data.company_email) /\ ~Truthy(@)
                          THEN job_data.company_email ELSE @]

\* lines 108-119: the posting's scraped_at, or now when absent or unparseable
ScrapedAt(job_data, clock) ==
    IF job_data.scraped_at # 0 THEN job_data.scraped_at ELSE clock

\* lines 122-133: Job.objects.update_or_create(title, company, url; defaults).
\* Returns the Job rows, or the rows unchanged when the lookup matches more
\* than one row (MultipleObjectsReturned, caught at line 140).
UpsertJob(rows, company_id, job_data, clock) ==
    LET match == {r \in rows : /\ r.title = job_data.title
                               /\ r.company = company_id
                               /\ r.url = job_data.url}
        defaults(r) == [r EXCEPT !.location = job_data.location,
                                 !.description = job_data.description,
                                 !.salary = "",
                                 !.source = job_data.source,
                                 !.scraped_at = ScrapedAt(job_data, clock)]
        created == defaults([id |-> Cardinality(rows) + 1,
                             title |-> job_data.title, company |-> company_id,
                             url |-> job_data.url, location |-> "",
                             description |-> "", salary |-> "", source |-> "",
                             scraped_at |-> 0])
    IN  IF match = {} THEN rows \cup {created}
        ELSE IF Cardinality(match) = 1
             THEN (rows \ match) \cup {defaults(r) : r \in match}
             ELSE rows

\* lines 77-142: one iteration of the loop over jobs_list, on the tables
\* db = [companies, jobs] at time clock
SaveOne(db, job_data, clock) ==
    IF ~Truthy(job_data.title) \/ ~Truthy(job_data.company)
    THEN db     \* incomplete record: skipped
    ELSE
      LET named == {c \in db.companies : c.name = job_data.company}
      IN  IF named = {}
          THEN \* get_or_create creates the company with the defaults
               LET c == [id |-> Cardinality(db.companies) + 1,
                         name |-> job_data.company,
                         company_website |-> job_data.company_website,
                         company_email |-> job_data.company_email]
               IN  [companies |-> db.companies \cup {c},
                    jobs |-> UpsertJob(db.jobs, c.id, job_data, clock)]
          ELSE IF Cardinality(named) = 1
          THEN LET old == CHOOSE c \in named : TRUE
                   c == Backfill(old, job_data)
               IN  [companies |-> (db.companies \ {old}) \cup {c},
                    jobs |-> UpsertJob(db.jobs, c.id, job_data, clock)]
          ELSE db   \* MultipleObjectsReturned: logged, next posting

\* lines 71-144: the whole loop; the clock advances from posting to posting
RECURSIVE SaveAll(_, _, _)
SaveAll(db, jobs_list, clock) ==
    IF jobs_list = <<>> THEN db
    ELSE SaveAll(SaveOne(db, Head(jobs_list), clock), Tail(jobs_list), clock + 1)

otherThanDb == <<pc, args, progress, taskProgress, job_run, scrapeJobRuns,
                 loc, jobCount, companyCount, schedLastRun, lastCall,
                 runTable, progressTable, cleanup, scrapeIn, scrapeOut, detectVars, urlSourceVars, fileVars, emailVars, websiteVars, sessionVars, viewVars, raceVars, enhanceVars, beatVars, tallyVars, statsRunsVars>>

DbInit ==
    /\ companies = {}
    /\ jobs = {}
    /\ processed = <<>>
    /\ now = 10
    /\ runTable = <<>> /\ progressTable = {} /\ cleanup = <<>>
    /\ TaskIdle /\ ProgressIdle /\ CallIdle /\ ScrapeIdle /\ DetectIdle /\ UrlSourceIdle /\ FileIdle /\ EmailIdle /\ WebsiteIdle /\ SessionIdle /\ ViewIdle /\ RaceIdle /\ EnhanceIdle /\ BeatIdle /\ TallyIdle /\ StatsRunsIdle

\* data_manager.save_to_django_db(jobs_list)
SaveToDjangoDb ==
    /\ \E k \in 1..MaxBatch :
          /\ Len(processed) + k <= MaxProcessed
          /\ \E jobs_list \in [1..k -> Postings] :
                LET db == SaveAll([companies |-> companies, jobs |-> jobs],
                                  jobs_list, now)
                IN  /\ companies' = db.companies
                    /\ jobs' = db.jobs
                    /\ processed' = processed \o jobs_list
                    /\ now' = now + k
    /\ UNCHANGED otherThanDb

DbNext == SaveToDjangoDb

\* Successive save_to_django_db calls on one database
SpecDb == DbInit /\ [][DbNext]_vars

\* the postings of processed that were not skipped as incomplete
Complete(job_data) == Truthy(job_data.title) /\ Truthy(job_data.company)

SameIdentity(a, b) ==
    /\ a.title = b.title /\ a.company = b.company
    /\ a.location = b.location /\ a.description = b.description

\* C2: after two postings with the same title, company, location and
\* description but different source, url and scraped_at have been processed,
\* exactly one Job row exists for them and its source, url and scraped_at are
\* those of the posting processed second.
C2_UpsertIdentity ==
    \A i \in DOMAIN processed, k \in DOMAIN processed :
        LET a == processed[i]
            b == processed[k]
            rows == {r \in jobs :
                        /\ r.title = b.title
                        /\ \E c \in companies :
                              c.id = r.company /\ c.name = b.company
                        /\ r.location = b.location
                        /\ r.description = b.description}
        IN  (/\ i < k
             /\ \A m \in DOMAIN processed :
                   (m > k /\ Complete(processed[m])) =>
                       ~SameIdentity(processed[m], b)
             /\ Complete(a) /\ Complete(b) /\ SameIdentity(a, b)
             /\ a.source # b.source /\ a.url # b.url
             /\ a.scraped_at # 0 /\ b.scraped_at # 0
             /\ a.scraped_at # b.scraped_at)
            => /\ Cardinality(rows) = 1
               /\ \A r \in rows : /\ r.source = b.source
                                  /\ r.url = b.url
                                  /\ r.scraped_at = b.scraped_at

\* the first truthy element of a sequence, "" when there is none
RECURSIVE FirstTruthy(_)
FirstTruthy(sq) ==
    IF sq = <<>> THEN ""
    ELSE IF Truthy(Head(sq)) THEN Head(sq) ELSE FirstTruthy(Tail(sq))

\* the complete postings processed so far that name a company
RECURSIVE PostingsOf(_, _)
PostingsOf(name, sq) ==
    IF sq = <<>> THEN <<>>
    ELSE IF Complete(Head(sq)) /\ Head(sq).company = name
         THEN <<Head(sq)>> \o PostingsOf(name, Tail(sq))
         ELSE PostingsOf(name, Tail(sq))

WebsitesOf(name) ==
    LET ps == PostingsOf(name, processed)
    IN  [i \in DOMAIN ps |-> ps[i].company_website]
EmailsOf(name) ==
    LET ps == PostingsOf(name, processed)
    IN  [i \in DOMAIN ps |-> ps[i].company_email]

\* C3: there is at most one Company row per name; a stored website / email
\* is the first non-empty value that arrived for that company, and once it is
\* non-empty no later save_to_django_db changes it.
C3_CompanyFieldsWriteOnce ==
    /\ [](/\ \A c1 \in companies, c2 \in companies :
                c1.name = c2.name => c1 = c2
          /\ \A c \in companies :
                /\ c.company_website = FirstTruthy(WebsitesOf(c.name))
                /\ c.company_email = FirstTruthy(EmailsOf(c.name)))
    /\ [][\A c \in companies :
            \E c2 \in companies' :
                /\ c2.name = c.name
                /\ Truthy(c.company_website) =>
                       c2.company_website = c.company_website
                /\ Truthy(c.company_email) =>
                       c2.company_email = c.company_email]_vars

\* a company whose website is set, after a later complete posting for it
\* carried a different non-empty website
C3_Witness ==
    \E c \in companies :
        LET ws == WebsitesOf(c.name)
        IN  \E i \in DOMAIN ws, k \in DOMAIN ws :
               /\ i < k
               /\ Truthy(ws[i]) /\ Truthy(ws[k]) /\ ws[i] # ws[k]
               /\ c.company_website = ws[i]

----------------------------------------------------------------------------
(* Housekeeping tasks (celery_tasks/tasks.py) *)

KeepPerScheduledJob == 100
KeepManual          == 50
ProgressMaxAgeHours == 24

\* the only ScheduledScrapeJob of the model; owner 0 is "no scheduled job"
ScheduledJobs == {1}

\* queryset.order_by('-started_at')[k:] : what lies beyond the k most recent
SlicedFrom(started, k) ==
    {t \in started : Cardinality({u \in started : u > t}) >= k}

\* QuerySet.delete(): Django refuses to delete through a sliced queryset
\* ("Cannot use 'limit' or 'offset' with delete()") and raises TypeError
\* before touching a row.
QuerySetDelete(table, selected, sliced) ==
    IF sliced
    THEN [raised |-> TRUE, table |-> table, count |-> 0]
    ELSE [raised |-> FALSE, table |-> table \ selected,
          count |-> Cardinality(selected)]

\* lines 304-313: the loop over the scheduled jobs, from table rt with
\* counter deleted_count
RECURSIVE CleanupScheduled(_, _, _)
CleanupScheduled(rt, todo, deleted_count) ==
    IF todo = {}
    THEN [raised |-> FALSE, table |-> rt, count |-> deleted_count]
    ELSE LET scheduled_job == CHOOSE j \in todo : TRUE
             runs_to_delete == SlicedFrom(rt[scheduled_job], KeepPerScheduledJob)
             d == QuerySetDelete(rt[scheduled_job], runs_to_delete, TRUE)
         IN  IF runs_to_delete = {}
             THEN CleanupScheduled(rt, todo \ {scheduled_job}, deleted_count)
             ELSE IF d.raised
             THEN [raised |-> TRUE, table |-> rt, count |-> deleted_count]
             ELSE CleanupScheduled([rt EXCEPT ![scheduled_job] = d.table],
                                   todo \ {scheduled_job},
                                   deleted_count + d.count)

\* lines 315-327: then the runs without a scheduled job, and the return
CleanupJobRuns(rt) ==
    LET s == CleanupScheduled(rt, ScheduledJobs, 0)
        manual_runs_to_delete == SlicedFrom(s.table[0], KeepManual)
        d == QuerySetDelete(s.table[0], manual_runs_to_delete, TRUE)
    IN  IF s.raised THEN s
        ELSE IF manual_runs_to_delete = {} THEN s
        ELSE IF d.raised
        THEN [raised |-> TRUE, table |-> s.table, count |-> s.count]
        ELSE [raised |-> FALSE, table |-> [s.table EXCEPT ![0] = d.table],
              count |-> s.count + d.count]

\* the run counts the model starts from: few runs, or about the limit
RunCounts(keep) ==
    (0..RunSlack) \cup ((keep - RunSlack)..(keep + RunSlack))

otherThanCleanup == <<pc, args, progress, taskProgress, job_run,
                      scrapeJobRuns, loc, jobCount, companyCount,
                      schedLastRun, lastCall, companies, jobs, processed,
                      scrapeIn, scrapeOut, detectVars, urlSourceVars, fileVars, emailVars, websiteVars, sessionVars, viewVars, raceVars, enhanceVars, beatVars, tallyVars, statsRunsVars>>

RunCleanupInit ==
    /\ \E n \in RunCounts(KeepPerScheduledJob), m \in RunCounts(KeepManual) :
          runTable = [owner \in {0} \cup ScheduledJobs |->
                         IF owner = 0 THEN 1..m ELSE 1..n]
    /\ progressTable = {}
    /\ now = 0
    /\ cleanup = <<>>
    /\ TaskIdle /\ ProgressIdle /\ CallIdle /\ DbIdle /\ ScrapeIdle /\ DetectIdle /\ UrlSourceIdle /\ FileIdle /\ EmailIdle /\ WebsiteIdle /\ SessionIdle /\ ViewIdle /\ RaceIdle /\ EnhanceIdle /\ BeatIdle /\ TallyIdle /\ StatsRunsIdle

\* cleanup_old_job_runs()
CleanupOldJobRuns ==
    /\ cleanup = <<>>
    /\ LET r == CleanupJobRuns(runTable)
       IN  /\ runTable' = r.table
           /\ cleanup' = [task |-> "cleanup_old_job_runs", raised |-> r.raised,
                          deleted_count |-> r.count, before |-> runTable]
    /\ UNCHANGED <<progressTable, now>>
    /\ UNCHANGED otherThanCleanup

RunCleanupNext == CleanupOldJobRuns

\* cleanup_old_job_runs on a table of runs
SpecRunCleanup == RunCleanupInit /\ [][RunCleanupNext]_vars

\* the k most recent of a set of start times
MostRecent(started, k) == started \ SlicedFrom(started, k)

\* C8: after cleanup_old_job_runs every scheduled job retains exactly its 100
\* most recent runs (all of them if it had at most 100), exactly the 50 most
\* recent runs without a scheduled job remain (all if at most 50), and the
\* returned deleted_count is the number of rows removed.
C8_RunRetention ==
    ("task" \in DOMAIN cleanup /\ cleanup.task = "cleanup_old_job_runs") =>
        /\ ~cleanup.raised
        /\ \A j \in ScheduledJobs :
              runTable[j] = MostRecent(cleanup.before[j], KeepPerScheduledJob)
        /\ runTable[0] = MostRecent(cleanup.before[0], KeepManual)
        /\ cleanup.deleted_count =
              Cardinality(cleanup.before[0] \ runTable[0])
              + Cardinality(UNION {cleanup.before[j] \ runTable[j] :
                                      j \in ScheduledJobs})

ProgressCleanupInit ==
    /\ now = ProgressMaxAgeHours + AgeSlack
    /\ \E ids \in SUBSET (1..MaxProgressRows) :
          \E started \in [ids -> 0..now] :
             progressTable = {[task_id |-> i, started_at |-> started[i]] :
                                 i \in ids}
    /\ runTable = <<>>
    /\ cleanup = <<>>
    /\ TaskIdle /\ ProgressIdle /\ CallIdle /\ DbIdle /\ ScrapeIdle /\ DetectIdle /\ UrlSourceIdle /\ FileIdle /\ EmailIdle /\ WebsiteIdle /\ SessionIdle /\ ViewIdle /\ RaceIdle /\ EnhanceIdle /\ BeatIdle /\ TallyIdle /\ StatsRunsIdle

\* TaskProgress.objects.filter(<field>__lt=cutoff): a lookup on a name that
\* is no field of the model raises FieldError
FilterLt(table, field, cutoff) ==
    IF field \in TaskProgressFields
    THEN [raised |-> FALSE, rows |-> {r \in table : r[field] < cutoff}]
    ELSE [raised |-> TRUE, rows |-> {}]

\* cleanup_old_progress(): lines 287-291
CleanupOldProgress ==
    /\ cleanup = <<>>
    /\ LET cutoff_time == now - ProgressMaxAgeHours
           q == FilterLt(progressTable, "created_at", cutoff_time)
           d == QuerySetDelete(progressTable, q.rows, FALSE)
       IN  IF q.raised
           THEN /\ progressTable' = progressTable
                /\ cleanup' = [task |-> "cleanup_old_progress", raised |-> TRUE,
                               deleted_count |-> 0, before |-> progressTable]
           ELSE /\ progressTable' = d.table
                /\ cleanup' = [task |-> "cleanup_old_progress",
                               raised |-> d.raised, deleted_count |-> d.count,
                               before |-> progressTable]
    /\ UNCHANGED <<runTable, now>>
    /\ UNCHANGED otherThanCleanup

ProgressCleanupNext == CleanupOldProgress

\* cleanup_old_progress on a table of progress rows
SpecProgressCleanup == ProgressCleanupInit /\ [][ProgressCleanupNext]_vars

\* C9: cleanup_old_progress deletes exactly the TaskProgress rows that are
\* more than 24 hours old, leaves every younger row unchanged and returns the
\* number of rows it deleted.
C9_OldProgressDeleted ==
    ("task" \in DOMAIN cleanup /\ cleanup.task = "cleanup_old_progress") =>
        /\ ~cleanup.raised
        /\ progressTable =
              {r \in cleanup.before : ~(now - r.started_at > ProgressMaxAgeHours)}
        /\ cleanup.deleted_count =
              Cardinality(cleanup.before \ progressTable)

----------------------------------------------------------------------------
(* The source scrapers' scrape_jobs (scraper/*_scraper.py) and their callers *)

ScraperNames == {"indeed", "glassdoor", "linkedin"}

\* max_jobs=20, the default of the third parameter of scrape_jobs
DefaultMaxJobs == 20

\* A result page: its job cards in document order; extract_job_details
\* returns a posting for a card (ok) or None.
Pages ==
    UNION {[1..k -> [ok : BOOLEAN]] : k \in 0..MaxCards}

\* the loop "for card in job_cards: if len(jobs) >= cap: break; ..." from
\* card number i on; got (the list jobs) holds the numbers of the cards collected so far
RECURSIVE CollectCards(_, _, _, _, _)
CollectCards(job_cards, i, got, cap, extracted) ==
    IF i > Len(job_cards) THEN [jobs |-> got, extracted |-> extracted]
    ELSE IF Len(got) >= cap THEN [jobs |-> got, extracted |-> extracted]
    ELSE CollectCards(job_cards, i + 1,
                      IF job_cards[i].ok THEN Append(got, i) ELSE got,
                      cap, extracted + 1)

\* jobs[:k] for k >= 0
Prefix(sq, k) == SubSeq(sq, 1, Min(k, Len(sq)))

\* IndeedScraper.scrape_jobs(job_title, location, max_jobs); ready says that
\* the driver came up and the navigation succeeded
IndeedScrapeJobs(job_title, location, max_jobs, page, ready) ==
    IF ~ready \/ page = <<>> THEN [jobs |-> <<>>, extracted |-> 0]
    ELSE LET r == CollectCards(page, 1, <<>>, max_jobs, 0)
         IN  [jobs |-> Prefix(r.jobs, max_jobs), extracted |-> r.extracted]

\* GlassdoorScraper.scrape_jobs(job_title, location, max_jobs)
GlassdoorScrapeJobs(job_title, location, max_jobs, page, ready) ==
    IF ~ready \/ page = <<>> THEN [jobs |-> <<>>, extracted |-> 0]
    ELSE LET r == CollectCards(page, 1, <<>>, max_jobs, 0)
         IN  [jobs |-> Prefix(r.jobs, max_jobs), extracted |-> r.extracted]

\* LinkedInScraper.scrape_jobs(filtered_url, num_jobs)
LinkedInScrapeJobs(filtered_url, num_jobs, page, ready) ==
    IF ~ready \/ page = <<>> THEN [jobs |-> <<>>, extracted |-> 0]
    ELSE CollectCards(page, 1, <<>>, num_jobs, 0)

\* run_scraper_url_task line 97: scraper.scrape_jobs(filtered_url, num_jobs)
\* for whichever scraper the source selects.  The two positional arguments
\* bind to the first two parameters; Indeed and Glassdoor take the count as
\* their third, which keeps its default.
UrlTaskScrape(source, filtered_url, num_jobs, page, ready) ==
    IF source = "linkedin"
    THEN LinkedInScrapeJobs(filtered_url, num_jobs, page, ready)
    ELSE IF source = "glassdoor"
    THEN GlassdoorScrapeJobs(filtered_url, num_jobs, DefaultMaxJobs, page, ready)
    ELSE IndeedScrapeJobs(filtered_url, num_jobs, DefaultMaxJobs, page, ready)

\* main.py lines 34 and 41: scrape_jobs(job_title, location, max_jobs_per_source)
MainScrape(source, max_jobs_per_source, page, ready) ==
    IF source = "glassdoor"
    THEN GlassdoorScrapeJobs("dev", "NY", max_jobs_per_source, page, ready)
    ELSE IndeedScrapeJobs("dev", "NY", max_jobs_per_source, page, ready)

otherThanScrape == <<pc, args, progress, taskProgress, job_run,
                     scrapeJobRuns, loc, jobCount, companyCount,
                     schedLastRun, lastCall, companies, jobs, processed,
                     runTable, progressTable, now, cleanup, detectVars, urlSourceVars, fileVars, emailVars, websiteVars, sessionVars, viewVars, raceVars, enhanceVars, beatVars, tallyVars, statsRunsVars>>

ScrapeInit ==
    /\ scrapeIn \in [source : ScraperNames, n : 0..MaxRequested, page : Pages,
                     ready : BOOLEAN]
    /\ scrapeOut = <<>>
    /\ TaskIdle /\ ProgressIdle /\ CallIdle /\ DbIdle /\ CleanupIdle /\ DetectIdle /\ UrlSourceIdle /\ FileIdle /\ EmailIdle /\ WebsiteIdle /\ SessionIdle /\ ViewIdle /\ RaceIdle /\ EnhanceIdle /\ BeatIdle /\ TallyIdle /\ StatsRunsIdle

\* the URL-based orchestration asks the source's scraper for n postings
ScrapeFromUrlTask ==
    /\ scrapeOut = <<>>
    /\ LET r == UrlTaskScrape(scrapeIn.source, "https://example.com/jobs",
                              scrapeIn.n, scrapeIn.page, scrapeIn.ready)
       IN  scrapeOut' = [caller |-> "run_scraper_url_task", jobs |-> r.jobs,
                         extracted |-> r.extracted]
    /\ UNCHANGED scrapeIn
    /\ UNCHANGED otherThanScrape

\* the standalone orchestrator asks Indeed or Glassdoor for n postings
ScrapeFromMain ==
    /\ scrapeOut = <<>>
    /\ scrapeIn.source \in {"indeed", "glassdoor"}
    /\ LET r == MainScrape(scrapeIn.source, scrapeIn.n, scrapeIn.page,
                           scrapeIn.ready)
       IN  scrapeOut' = [caller |-> "main", jobs |-> r.jobs,
                         extracted |-> r.extracted]
    /\ UNCHANGED scrapeIn
    /\ UNCHANGED otherThanScrape

ScrapeNext == ScrapeFromUrlTask \/ ScrapeFromMain

\* One scrape_jobs call on one result page
SpecScrape == ScrapeInit /\ [][ScrapeNext]_vars

\* the numbers of the extractable cards of a page, in document order
RECURSIVE Extractable(_, _)
Extractable(page, i) ==
    IF i > Len(page) THEN <<>>
    ELSE IF page[i].ok THEN <<i>> \o Extractable(page, i + 1)
         ELSE Extractable(page, i + 1)

\* C10: scrape_jobs asked for n postings on a page with m extractable cards
\* returns the first min(n, m) extractable cards in document order, never
\* more than n, and extracts no card after the n-th posting was collected.
C10_CountCap ==
    ("jobs" \in DOMAIN scrapeOut /\ scrapeIn.ready) =>
        LET all == Extractable(scrapeIn.page, 1)
            k == Min(scrapeIn.n, Len(all))
        IN  /\ Len(scrapeOut.jobs) <= scrapeIn.n
            /\ scrapeOut.jobs = SubSeq(all, 1, k)
            /\ scrapeOut.extracted <=
                  (IF Len(all) > scrapeIn.n
                   THEN (IF scrapeIn.n = 0 THEN 0 ELSE all[scrapeIn.n])
                   ELSE Len(scrapeIn.page))

----------------------------------------------------------------------------
(* Challenge detection (scraper/cloudflare_bypass.py, indeed_scraper.py) *)

MaxOddProbes == 2       \* element probes of one check that do not come back empty

\* the XPath selectors probed by the two checks
NumIndeedIndicators == 2
NumCfElements == 8

\* What one find_elements probe does: raises, finds an element, finds none.
ProbeOutcomes == {"raise", "found", "none"}

\* probe behaviours over n selectors with at most k probes that find or raise
ProbesUpTo(n, k) ==
    {f \in [1..n -> ProbeOutcomes] :
        Cardinality({i \in 1..n : f[i] # "none"}) <= k}

\* What a driver does during one check: the page_source read raises, holds
\* one of the cf_indicators, or is clean; the current_url read likewise; the
\* probes per selector; the second current_url read of the Indeed check; and
\* whether bypass_cloudflare_challenge hands back a driver.
DriverBehaviours ==
    [page_source : {"raise", "indicator", "clean"},
     current_url : {"raise", "pattern", "clean"},
     elements    : ProbesUpTo(NumCfElements, MaxOddProbes),
     indeed      : ProbesUpTo(NumIndeedIndicators, MaxOddProbes),
     url_again   : {"raise", "ok"},
     bypassed    : BOOLEAN]

\* the loop over cf_elements: a probe that raises is skipped ('continue')
RECURSIVE CfElementLoop(_, _)
CfElementLoop(elements, i) ==
    IF i > Len(elements) THEN [result |-> FALSE, errored |-> FALSE]
    ELSE IF elements[i] = "found" THEN [result |-> TRUE, errored |-> FALSE]
    ELSE IF elements[i] = "raise"
         THEN [result |-> CfElementLoop(elements, i + 1).result, errored |-> TRUE]
    ELSE CfElementLoop(elements, i + 1)

\* CloudflareBypass.is_cloudflare_challenge(driver): the result and whether
\* one of its steps raised internally
IsCloudflareChallenge(has_driver, b) ==
    IF ~has_driver THEN [result |-> FALSE, errored |-> FALSE]
    ELSE IF b.page_source = "raise" THEN [result |-> TRUE, errored |-> TRUE]
    ELSE IF b.page_source = "indicator" THEN [result |-> TRUE, errored |-> FALSE]
    ELSE IF b.current_url = "raise" THEN [result |-> TRUE, errored |-> TRUE]
    ELSE IF b.current_url = "pattern" THEN [result |-> TRUE, errored |-> FALSE]
    ELSE CfElementLoop(b.elements, 1)

\* the loop over challenge_indicators of IndeedScraper._check_for_challenge:
\* "found", "raise" (the exception leaves the loop) or "none"
RECURSIVE IndeedIndicatorLoop(_, _)
IndeedIndicatorLoop(indeed, i) ==
    IF i > Len(indeed) THEN "none"
    ELSE IF indeed[i] # "none" THEN indeed[i]
    ELSE IndeedIndicatorLoop(indeed, i + 1)

\* IndeedScraper._check_for_challenge(): the result, whether a step raised
\* internally, and whether self.driver was replaced by a bypass driver
CheckForChallenge(has_driver, b) ==
    LET first == IF has_driver THEN IndeedIndicatorLoop(b.indeed, 1) ELSE "raise"
        cf == IsCloudflareChallenge(has_driver, b)
    IN  IF first = "found"
        THEN [result |-> TRUE, errored |-> FALSE, swapped |-> FALSE]
        ELSE IF first = "raise"
        THEN [result |-> FALSE, errored |-> TRUE, swapped |-> FALSE]   \* bare except
        ELSE IF ~cf.result
        THEN [result |-> FALSE, errored |-> cf.errored, swapped |-> FALSE]
        ELSE IF b.url_again = "raise"
        THEN [result |-> FALSE, errored |-> TRUE, swapped |-> FALSE]   \* bare except
        ELSE IF b.bypassed
        THEN [result |-> FALSE, errored |-> cf.errored, swapped |-> TRUE]
        ELSE [result |-> TRUE, errored |-> cf.errored, swapped |-> FALSE]

otherThanDetect == <<taskVars, callVars, dbVars, cleanupVars, scrapeVars, urlSourceVars, fileVars, emailVars, websiteVars, sessionVars, viewVars, raceVars, enhanceVars, beatVars, tallyVars, statsRunsVars>>

DetectInit ==
    /\ detect = <<>>
    /\ TaskIdle /\ ProgressIdle /\ CallIdle /\ DbIdle /\ CleanupIdle /\ ScrapeIdle /\ UrlSourceIdle /\ FileIdle /\ EmailIdle /\ WebsiteIdle /\ SessionIdle /\ ViewIdle /\ RaceIdle /\ EnhanceIdle /\ BeatIdle /\ TallyIdle /\ StatsRunsIdle

\* a scraper calls is_cloudflare_challenge(self.driver) on a loaded page
CallIsCloudflareChallenge ==
    /\ detect = <<>>
    /\ \E b \in DriverBehaviours :
          /\ b.indeed = [i \in 1..NumIndeedIndicators |-> "none"]
          /\ b.url_again = "ok" /\ ~b.bypassed
          /\ LET r == IsCloudflareChallenge(TRUE, b)
             IN  detect' = [check |-> "is_cloudflare_challenge", driver |-> b,
                            result |-> r.result, errored |-> r.errored,
                            swapped |-> FALSE]
    /\ UNCHANGED otherThanDetect

\* navigate_to_search_page calls self._check_for_challenge() on a loaded page
CallCheckForChallenge ==
    /\ detect = <<>>
    /\ \E b \in DriverBehaviours :
          LET r == CheckForChallenge(TRUE, b)
          IN  detect' = [check |-> "_check_for_challenge", driver |-> b,
                         result |-> r.result, errored |-> r.errored,
                         swapped |-> r.swapped]
    /\ UNCHANGED otherThanDetect

DetectNext == CallIsCloudflareChallenge \/ CallCheckForChallenge

\* One challenge check on one loaded page
SpecDetect == DetectInit /\ [][DetectNext]_vars

\* C11: a challenge check in which a step failed internally (reading the page
\* source or the URL, or probing elements) reports 'challenge present', both
\* for is_cloudflare_challenge and for IndeedScraper._check_for_challenge.
C11_ErrorMeansChallenge ==
    (detect # <<>> /\ detect.errored) => detect.result

----------------------------------------------------------------------------
(* URL-based source selection (jobs/frontend_views.py, scraper/tasks.py) *)

MaxUrlParts == 2        \* a submitted URL is made of at most this many parts

\* A URL is a sequence of parts; the parts that matter are the domain names,
\* in lower or mixed case, and one part that names no known source.
UrlParts ==
    {"indeed.com", "Indeed.COM", "glassdoor.com", "Glassdoor.Com",
     "linkedin.com", "LinkedIn.com", "example.org"}

\* str.lower() of one part
LowerPart(part) ==
    CASE part = "Indeed.COM"    -> "indeed.com"
      [] part = "Glassdoor.Com" -> "glassdoor.com"
      [] part = "LinkedIn.com"  -> "linkedin.com"
      [] OTHER                  -> part

\* str.lower() of a URL
Lower(url) == [i \in 1..Len(url) |-> LowerPart(url[i])]

\* needle in text
In(needle, text) == \E i \in 1..Len(text) : text[i] = needle

Urls == SeqsUpTo(UrlParts, MaxUrlParts)

\* run_scraper_url_task, "Auto-detect source from URL": source is the
\* optional argument
DetectSource(filtered_url, source) ==
    IF source # "" THEN source
    ELSE IF In("indeed.com", Lower(filtered_url)) THEN "indeed"
    ELSE IF In("glassdoor.com", Lower(filtered_url)) THEN "glassdoor"
    ELSE IF In("linkedin.com", Lower(filtered_url)) THEN "linkedin"
    ELSE "indeed"

\* scraper_control, "Auto-detect source from URL domain"
ControlSource(filtered_url) ==
    IF In("glassdoor.com", Lower(filtered_url)) THEN "glassdoor"
    ELSE IF In("linkedin.com", Lower(filtered_url)) THEN "linkedin"
    ELSE IF In("indeed.com", Lower(filtered_url)) THEN "indeed"
    ELSE "indeed"

\* the max_jobs value of a POST: absent, a number, or text int() rejects
MaxJobsPosted ==
    {[kind |-> "missing", n |-> 0], [kind |-> "garbage", n |-> 0]}
        \cup [kind : {"number"}, n : {5, 30}]

\* the largest max_jobs the first dispatch branch of scraper_control takes
InlineLimit == 25

\* the columns of ScraperStats the model carries
NewStats(source) == [source |-> source, jobs_found |-> 0, jobs_saved |-> 0]

\* the attributes a ScraperStats instance has
ScraperStatsAttrs ==
    {"id", "source", "date", "requests_made", "successful_requests",
     "failed_requests", "jobs_found", "jobs_saved", "duplicates_skipped",
     "average_response_time", "total_scraping_time", "error_details"}

otherThanUrlSource == <<taskVars, callVars, dbVars, cleanupVars, scrapeVars, detectVars, fileVars, emailVars, websiteVars, sessionVars, viewVars, raceVars, enhanceVars, beatVars, tallyVars, statsRunsVars>>

ControlInit ==
    /\ control = <<>>
    /\ urlTask = <<>>
    /\ scraperStats = {}
    /\ TaskIdle /\ ProgressIdle /\ CallIdle /\ DbIdle /\ CleanupIdle /\ ScrapeIdle /\ DetectIdle /\ FileIdle /\ EmailIdle /\ WebsiteIdle /\ SessionIdle /\ ViewIdle /\ RaceIdle /\ EnhanceIdle /\ BeatIdle /\ TallyIdle /\ StatsRunsIdle

\* scraper_control(request): one request of the dashboard's scraper form
ScraperControl ==
    /\ control = <<>>
    /\ \E method \in {"GET", "POST"}, htmx \in BOOLEAN, filtered_url \in Urls,
          posted \in MaxJobsPosted, brokerUp \in BOOLEAN :
          control' =
            IF method = "GET"
            THEN [method |-> method, response |-> "scraper_control.html",
                  dispatched |-> {}]
            ELSE IF posted.kind = "garbage"
            THEN [method |-> method, response |-> "ValueError",
                  dispatched |-> {}]
            ELSE
              LET max_jobs == IF posted.kind = "missing" THEN 10 ELSE posted.n
                  source == ControlSource(filtered_url)
                  search_criteria ==
                      [filtered_url |-> filtered_url, max_jobs |-> max_jobs,
                       source |-> source, scrape_type |-> "url_based"]
              IN  IF ~htmx
                  THEN [method |-> method, response |-> "redirect",
                        dispatched |-> {}]
                  ELSE IF ~brokerUp
                  THEN [method |-> method, response |-> "error",
                        inline |-> max_jobs <= InlineLimit, dispatched |-> {}]
                  ELSE [method |-> method, response |-> "running",
                        inline |-> max_jobs <= InlineLimit,
                        dispatched |-> {search_criteria}]
    /\ UNCHANGED <<urlTask, scraperStats>>
    /\ UNCHANGED otherThanUrlSource

ControlNext == ScraperControl

\* One request to the dashboard's scraper form
SpecControl == ControlInit /\ [][ControlNext]_vars

\* run_scraper_url_task(filtered_url, num_jobs, source) is entered
UrlTaskInit ==
    /\ control = <<>>
    /\ urlTask \in [pc : {"detect"}, filtered_url : Urls,
                     num_jobs : 1..MaxRequested,
                     given : {"", "indeed", "glassdoor", "linkedin", "monster"},
                     source : {""}, scraper : {""}, result : {<<>>}]
    /\ scraperStats \in SUBSET {NewStats("indeed")}
    /\ TaskIdle /\ ProgressIdle /\ CallIdle /\ DbIdle /\ CleanupIdle /\ ScrapeIdle /\ DetectIdle /\ FileIdle /\ EmailIdle /\ WebsiteIdle /\ SessionIdle /\ ViewIdle /\ RaceIdle /\ EnhanceIdle /\ BeatIdle /\ TallyIdle /\ StatsRunsIdle

\* lines 51-60: the source is detected when none was given
AutoDetect ==
    /\ urlTask.pc = "detect"
    /\ urlTask' = [urlTask EXCEPT
                     !.source = DetectSource(urlTask.filtered_url, urlTask.source),
                     !.pc = "stats"]
    /\ UNCHANGED <<control, scraperStats>>
    /\ UNCHANGED otherThanUrlSource

\* lines 62-75: the day's ScraperStats row of the source is fetched or
\* created, then 'stats.jobs_requested += num_jobs' reads an attribute the
\* model class does not have; neither statement is inside the try block
StatsAndRequested ==
    /\ urlTask.pc = "stats"
    /\ \E dbUp \in BOOLEAN :
          IF ~dbUp
          THEN /\ urlTask' = [urlTask EXCEPT !.pc = "raised",
                                             !.result = [error |-> "DatabaseError"]]
               /\ UNCHANGED scraperStats
          ELSE /\ scraperStats' =
                     IF \E s \in scraperStats : s.source = urlTask.source
                     THEN scraperStats
                     ELSE scraperStats \cup {NewStats(urlTask.source)}
               /\ urlTask' =
                     IF "jobs_requested" \in ScraperStatsAttrs
                     THEN [urlTask EXCEPT !.pc = "scrape"]
                     ELSE [urlTask EXCEPT !.pc = "raised",
                                          !.result = [error |-> "AttributeError"]]
    /\ UNCHANGED control
    /\ UNCHANGED otherThanUrlSource

UrlTaskNext == AutoDetect \/ StatsAndRequested

\* One run_scraper_url_task call
SpecUrlTask == UrlTaskInit /\ [][UrlTaskNext]_vars

\* the domain names of the known sources a URL contains
SourcesNamed(url) ==
    {s \in {"indeed", "glassdoor", "linkedin"} :
        \E i \in 1..Len(url) : LowerPart(url[i]) = s \o ".com"}

\* C12: a run_scraper_url_task call without a source that has ended, the
\* database being reachable, reported in its result the source named by the URL's domain ('indeed' when the URL
\* names none) and picked that source's scraper.
C12_SourceAutoDetected ==
    (/\ urlTask # <<>>
     /\ urlTask.pc \in {"done", "raised"}
     /\ urlTask.result # [error |-> "DatabaseError"]
     /\ urlTask.given = ""
     /\ Cardinality(SourcesNamed(urlTask.filtered_url)) <= 1) =>
        LET expected == IF SourcesNamed(urlTask.filtered_url) = {} THEN "indeed"
                        ELSE TheValue(SourcesNamed(urlTask.filtered_url))
        IN  /\ "source" \in DOMAIN urlTask.result
            /\ urlTask.result.source = expected
            /\ urlTask.scraper = expected

\* C13: the source scraper_control puts into the dispatched search criteria
\* is the source run_scraper_url_task detects from the same URL.
C13_ControlMatchesTask ==
    (control # <<>>) =>
        \A c \in control.dispatched :
            c.source = DetectSource(c.filtered_url, "")

----------------------------------------------------------------------------
(* The flat file store of JobDataManager (scraper/data_manager.py) *)

\* Posting URLs as the file store sees them: one of them also occurs with a
\* trailing blank, one posting has no URL.
FileUrls == {"", "https://www.indeed.com/viewjob?jk=1",
             "https://www.indeed.com/viewjob?jk=1 ",
             "https://www.linkedin.com/jobs/view/1"}

\* str.strip() of a URL
Strip(u) == IF u = "https://www.indeed.com/viewjob?jk=1 "
            THEN "https://www.indeed.com/viewjob?jk=1" ELSE u

FileSourceOfUrl(u) == IF u = "https://www.linkedin.com/jobs/view/1"
                      THEN "LinkedIn" ELSE "Indeed"

\* The postings handed to save_jobs; scraped_at is 0 when the key is absent.
FilePostings ==
    {[title |-> "Developer", company |-> "Acme", location |-> "Remote",
      description |-> d, url |-> u, source |-> FileSourceOfUrl(u),
      scraped_at |-> s, company_website |-> "", company_email |-> ""] :
        d \in {"Build", "Build things"}, u \in FileUrls, s \in {0, 5}}

\* len(str(value)) of the texts of a posting; an ISO timestamp has one length
TextLen(key, value) ==
    IF key \in {"scraped_at", "last_updated"} THEN 26
    ELSE CASE value = ""             -> 0
           [] value = "Build"        -> 5
           [] value = "Build things" -> 12
           [] value = "Acme"         -> 4
           [] value = "Remote"       -> 6
           [] value = "Developer"    -> 9
           [] value = "https://www.indeed.com/viewjob?jk=1"  -> 35
           [] value = "https://www.indeed.com/viewjob?jk=1 " -> 36
           [] value = "https://www.linkedin.com/jobs/view/1" -> 36

\* truthiness of a posting's value
TruthyValue(key, value) ==
    IF key \in {"scraped_at", "last_updated"} THEN value # 0 ELSE value # ""

\* the keys of a stored posting, in the order the dictionaries list them
KeyOrder == <<"title", "company", "location", "description", "url", "source",
              "scraped_at", "company_website", "company_email", "sources",
              "last_updated">>

\* json.dump of one dictionary: its key / value pairs, in key order
RECURSIVE ObjectText(_, _)
ObjectText(d, i) ==
    IF i > Len(KeyOrder) THEN <<>>
    ELSE IF KeyOrder[i] \in DOMAIN d
         THEN <<<<KeyOrder[i], d[KeyOrder[i]]>>>> \o ObjectText(d, i + 1)
         ELSE ObjectText(d, i + 1)

\* _save_to_json: the JSON array written to the file
JsonDump(jobs_list) == [i \in 1..Len(jobs_list) |-> ObjectText(jobs_list[i], 1)]

\* json.load of one object
ObjectOf(pairs) ==
    [k \in {pairs[j][1] : j \in 1..Len(pairs)} |->
        pairs[CHOOSE j \in 1..Len(pairs) : pairs[j][1] = k][2]]

\* _load_from_json
JsonLoad(text) == [i \in 1..Len(text) |-> ObjectOf(text[i])]

\* load_jobs(): [] when the file is absent or cannot be parsed
LoadJobs(store) ==
    IF ~store.exists THEN <<>>
    ELSE IF ~store.valid THEN <<>>
    ELSE JsonLoad(store.text)

\* _find_duplicate matching on title and company instead of the URL
RECURSIVE FindDuplicateByTitle(_, _, _)
FindDuplicateByTitle(new_job, existing_jobs, i) ==
    IF i > Len(existing_jobs) THEN 0
    ELSE IF /\ new_job.title = existing_jobs[i].title
            /\ new_job.company = existing_jobs[i].company
         THEN i
         ELSE FindDuplicateByTitle(new_job, existing_jobs, i + 1)

\* _find_duplicate: the index of the first stored posting with the same
\* non-empty stripped URL, 0 for None
RECURSIVE FindDuplicate(_, _, _)
FindDuplicate(new_job, existing_jobs, i) ==
    IF i > Len(existing_jobs) THEN 0
    ELSE IF /\ Strip(new_job.url) # ""
            /\ Strip(existing_jobs[i].url) # ""
            /\ Strip(new_job.url) = Strip(existing_jobs[i].url)
         THEN i
         ELSE FindDuplicate(new_job, existing_jobs, i + 1)

InSeq(x, sq) == \E i \in 1..Len(sq) : sq[i] = x

\* the field loop of _merge_job_data: a new value replaces a stored one that
\* is empty or whose text is shorter
RECURSIVE MergeFields(_, _, _, _)
MergeFields(merged_job, existing_job, new_job, keys) ==
    IF keys = {} THEN merged_job
    ELSE LET key == CHOOSE k \in keys : TRUE
             value == new_job[key]
             takes == \/ key \notin DOMAIN existing_job
                      \/ ~TruthyValue(key, existing_job[key])
                      \/ /\ TruthyValue(key, value)
                         /\ TextLen(key, value) > TextLen(key, existing_job[key])
             next == IF takes
                     THEN [k \in DOMAIN merged_job \cup {key} |->
                             IF k = key THEN value ELSE merged_job[k]]
                     ELSE merged_job
         IN  MergeFields(next, existing_job, new_job, keys \ {key})

\* _merge_job_data(existing_job, new_job)
MergeJobData(existing_job, new_job, clock) ==
    LET existing_sources == IF "sources" \in DOMAIN existing_job
                            THEN existing_job.sources
                            ELSE <<Get(existing_job, "source", "")>>
        new_source == Get(new_job, "source", "")
        sources == IF new_source # "" /\ ~InSeq(new_source, existing_sources)
                   THEN Append(existing_sources, new_source)
                   ELSE existing_sources
        with_sources == [k \in DOMAIN existing_job \cup {"sources"} |->
                            IF k = "sources" THEN sources ELSE existing_job[k]]
        merged_job == MergeFields(with_sources, existing_job, new_job,
                                  DOMAIN new_job \ {"source"})
    IN  [k \in DOMAIN merged_job \cup {"last_updated"} |->
            IF k = "last_updated" THEN clock ELSE merged_job[k]]

\* the loop of save_jobs over jobs_list from index i on: every posting is
\* stamped in place, then merged into its duplicate or appended
RECURSIVE SaveLoop(_, _, _, _)
SaveLoop(existing_jobs, jobs_list, i, clock) ==
    IF i > Len(jobs_list)
    THEN [existing_jobs |-> existing_jobs, jobs_list |-> jobs_list]
    ELSE LET job == [jobs_list[i] EXCEPT !.scraped_at = clock]
             duplicate_index == FindDuplicate(job, existing_jobs, 1)
             stored == IF duplicate_index # 0
                       THEN [existing_jobs EXCEPT ![duplicate_index] =
                               MergeJobData(existing_jobs[duplicate_index], job, clock)]
                       ELSE Append(existing_jobs, job)
         IN  SaveLoop(stored, [jobs_list EXCEPT ![i] = job], i + 1, clock + 1)

otherThanFile == <<taskVars, callVars, runTable, progressTable, cleanup, scrapeVars, detectVars, urlSourceVars, emailVars, websiteVars, sessionVars, viewVars, raceVars, enhanceVars, beatVars, tallyVars, statsRunsVars>>

\* The store is absent, an empty file, or holds an empty JSON array.
FileInit ==
    /\ fileStore \in {[exists |-> FALSE, valid |-> FALSE, text |-> <<>>],
                      [exists |-> TRUE, valid |-> FALSE, text |-> <<>>],
                      [exists |-> TRUE, valid |-> TRUE, text |-> <<>>]}
    /\ fileCall = <<>>
    /\ loaded = <<>>
    /\ companies = {} /\ jobs = {} /\ processed = <<>>
    /\ now = 10
    /\ runTable = <<>> /\ progressTable = {} /\ cleanup = <<>>
    /\ TaskIdle /\ ProgressIdle /\ CallIdle /\ ScrapeIdle /\ DetectIdle /\ UrlSourceIdle /\ EmailIdle /\ WebsiteIdle /\ SessionIdle /\ ViewIdle /\ RaceIdle /\ EnhanceIdle /\ BeatIdle /\ TallyIdle /\ StatsRunsIdle

\* save_jobs(jobs_list) with append_mode=True: the file is rewritten, then
\* the same list goes to save_to_django_db
SaveJobs ==
    /\ fileCall = <<>>
    /\ \E k \in 0..MaxBatch, ioOk \in BOOLEAN :
       \E jobs_list \in [1..k -> FilePostings] :
          LET existing_jobs == IF fileStore.exists THEN LoadJobs(fileStore)
                               ELSE <<>>
              r == SaveLoop(existing_jobs, jobs_list, 1, now)
          IN  IF ioOk
              THEN LET db == SaveAll([companies |-> companies, jobs |-> jobs],
                                     r.jobs_list, now + k)
                   IN  /\ fileStore' = [exists |-> TRUE, valid |-> TRUE,
                                        text |-> JsonDump(r.existing_jobs)]
                       /\ fileCall' = [given |-> jobs_list,
                                       jobs_list |-> r.jobs_list,
                                       raised |-> FALSE]
                       /\ companies' = db.companies
                       /\ jobs' = db.jobs
                       /\ processed' = processed \o r.jobs_list
                       /\ now' = now + k + k
              ELSE \* _save_to_file raises: the file is untouched or truncated
                   /\ fileStore' \in {fileStore,
                                      [exists |-> TRUE, valid |-> FALSE,
                                       text |-> <<>>]}
                   /\ fileCall' = [given |-> jobs_list,
                                   jobs_list |-> r.jobs_list, raised |-> TRUE]
                   /\ now' = now + k
                   /\ UNCHANGED <<companies, jobs, processed>>
    /\ UNCHANGED loaded
    /\ UNCHANGED otherThanFile

\* load_jobs() after the save
LoadJobsCall ==
    /\ fileCall # <<>>
    /\ loaded = <<>>
    /\ loaded' = [jobs |-> LoadJobs(fileStore)]
    /\ UNCHANGED <<fileStore, fileCall, companies, jobs, processed, now>>
    /\ UNCHANGED otherThanFile

FileNext == SaveJobs \/ LoadJobsCall

\* save_jobs on a fresh store, then load_jobs
SpecFile == FileInit /\ [][FileNext]_vars

\* no two postings of the list share a non-empty stripped URL
DistinctUrls(jobs_list) ==
    \A i, j \in 1..Len(jobs_list) :
        (i # j /\ Strip(jobs_list[i].url) # "") =>
            Strip(jobs_list[i].url) # Strip(jobs_list[j].url)

\* the list as save_jobs leaves it: every record carries a scraped_at stamp
Populated(jobs_list) == \A i \in 1..Len(jobs_list) : jobs_list[i].scraped_at # 0

----------------------------------------------------------------------------
(* Email filtering of CompanyInfoExtractor (scraper/company_info_extractor.py) *)

MaxMatches == 3         \* addresses found on one page

\* An address is a sequence of pieces of text; a pattern occurs in it when
\* its pieces occur side by side.  Local parts: the excluded and the preferred
\* words, other names, mixed case, and names that end in or contain a word.
LocalParts ==
    {<<"noreply">>, <<"no-reply">>, <<"donotreply">>, <<"newsletter">>,
     <<"marketing">>, <<"info">>, <<"contact">>, <<"hello">>, <<"careers">>,
     <<"jobs">>, <<"hr">>, <<"jane">>, <<"Info">>, <<"NoReply">>,
     <<"my", "noreply">>, <<"john", ".", "marketing">>, <<"noreply", ".", "hr">>,
     <<"c", "hr">>, <<"gmail", ".com", ".", "fan">>, <<"jane", ".", "doe">>}

DomainParts ==
    {<<"acme", ".com">>, <<"acme", ".org">>, <<"gmail", ".com">>,
     <<"yahoo", ".com">>, <<"hotmail", ".com">>, <<"outlook", ".com">>,
     <<"GMail", ".com">>, <<"not", "gmail", ".com">>,
     <<"gmail", ".com", ".au">>, <<"gmail", ".org">>, <<"localhost">>}

Addresses == {l \o <<"@">> \o d : l \in LocalParts, d \in DomainParts}

\* str.lower() of one piece
LowerPiece(piece) ==
    CASE piece = "Info"    -> "info"
      [] piece = "NoReply" -> "noreply"
      [] piece = "GMail"   -> "gmail"
      [] OTHER             -> piece

LowerText(text) == [i \in 1..Len(text) |-> LowerPiece(text[i])]

\* pattern in text
Occurs(pattern, text) ==
    \E i \in 0..(Len(text) - Len(pattern)) :
        \A j \in 1..Len(pattern) : text[i + j] = pattern[j]

\* the pieces that hold a '.'
DotPieces == {".", ".com", ".org", ".au"}

excluded_patterns ==
    <<<<"noreply", "@">>, <<"no-reply", "@">>, <<"donotreply", "@">>,
      <<"newsletter", "@">>, <<"marketing", "@">>,
      <<"gmail", ".com">>, <<"yahoo", ".com">>, <<"hotmail", ".com">>,
      <<"outlook", ".com">>>>

preferred_patterns ==
    <<<<"info", "@">>, <<"contact", "@">>, <<"hello", "@">>,
      <<"careers", "@">>, <<"jobs", "@">>, <<"hr", "@">>>>

\* _is_company_email with the preferred patterns tested before the excluded
IsCompanyEmailPreferredFirst(address) ==
    LET email == LowerText(address)
    IN  IF \E i \in 1..Len(preferred_patterns) : Occurs(preferred_patterns[i], email)
        THEN TRUE
        ELSE IF \E i \in 1..Len(excluded_patterns) : Occurs(excluded_patterns[i], email)
        THEN FALSE
        ELSE InSeq("@", email) /\ \E i \in 1..Len(email) : email[i] \in DotPieces

\* _is_company_email(email)
IsCompanyEmail(address) ==
    LET email == LowerText(address)
    IN  IF \E i \in 1..Len(excluded_patterns) : Occurs(excluded_patterns[i], email)
        THEN FALSE
        ELSE IF \E i \in 1..Len(preferred_patterns) : Occurs(preferred_patterns[i], email)
        THEN TRUE
        ELSE InSeq("@", email) /\ \E i \in 1..Len(email) : email[i] \in DotPieces

\* the loop over the matches of _extract_email_from_page: the first address
\* accepted, lower-cased; <<>> for None
RECURSIVE FirstCompanyEmail(_, _)
FirstCompanyEmail(matches, i) ==
    IF i > Len(matches) THEN <<>>
    ELSE IF IsCompanyEmail(matches[i]) THEN LowerText(matches[i])
    ELSE FirstCompanyEmail(matches, i + 1)

\* the addresses a fetched page shows
PageAddresses ==
    {<<"info", "@", "acme", ".com">>, <<"noreply", "@", "acme", ".com">>,
     <<"jane", "@", "gmail", ".com">>, <<"Info", "@", "acme", ".org">>}

\* _extract_email_from_page(page_url): status is the HTTP status of the page
\* (0: the request raised), matches the addresses of the first pattern in page
\* order, mailto those of the second pattern
ExtractEmailFromPage(status, matches, mailto) ==
    IF status # 200 THEN <<>>
    ELSE LET first == FirstCompanyEmail(matches, 1)
         IN  IF first # <<>> THEN first ELSE FirstCompanyEmail(mailto, 1)

otherThanEmail == <<taskVars, callVars, dbVars, cleanupVars, scrapeVars, detectVars, urlSourceVars, fileVars, websiteVars, sessionVars, viewVars, raceVars, enhanceVars, beatVars, tallyVars, statsRunsVars>>

EmailInit ==
    /\ emailCheck = <<>>
    /\ TaskIdle /\ ProgressIdle /\ CallIdle /\ DbIdle /\ CleanupIdle /\ ScrapeIdle /\ DetectIdle /\ UrlSourceIdle /\ FileIdle /\ WebsiteIdle /\ SessionIdle /\ ViewIdle /\ RaceIdle /\ EnhanceIdle /\ BeatIdle /\ TallyIdle /\ StatsRunsIdle

\* one call of _is_company_email
IsCompanyEmailCall ==
    /\ emailCheck = <<>>
    /\ \E address \in Addresses :
          emailCheck' = [call |-> "_is_company_email", email |-> address,
                         accepted |-> IsCompanyEmail(address)]
    /\ UNCHANGED otherThanEmail

\* one call of _extract_email_from_page
ExtractEmailCall ==
    /\ emailCheck = <<>>
    /\ \E status \in {0, 200, 404}, matches \in SeqsUpTo(PageAddresses, MaxMatches),
          linked \in BOOLEAN :
          emailCheck' = [call |-> "_extract_email_from_page", status |-> status,
                         matches |-> matches,
                         email |-> ExtractEmailFromPage(status, matches,
                                     IF linked THEN matches ELSE <<>>)]
    /\ UNCHANGED otherThanEmail

EmailNext == IsCompanyEmailCall \/ ExtractEmailCall

\* One email filtering call
SpecEmail == EmailInit /\ [][EmailNext]_vars

\* the position of the '@' of an address
AtOf(email) == CHOOSE i \in 1..Len(email) : email[i] = "@"
LocalOf(email) == SubSeq(email, 1, AtOf(email) - 1)
DomainOf(email) == SubSeq(email, AtOf(email) + 1, Len(email))

ExcludedLocals == {"noreply", "no-reply", "donotreply", "newsletter", "marketing"}
PreferredLocals == {"info", "contact", "hello", "careers", "jobs", "hr"}
FreeMailNames == {"gmail", "yahoo", "hotmail", "outlook"}

HasDot(email) == \E i \in 1..Len(email) : email[i] \in DotPieces

\* the three addresses of the example, in any order and number
ExampleOnly(matches) ==
    /\ InSeq(<<"info", "@", "acme", ".com">>, matches)
    /\ \A i \in 1..Len(matches) :
          matches[i] \in {<<"info", "@", "acme", ".com">>,
                          <<"noreply", "@", "acme", ".com">>,
                          <<"jane", "@", "gmail", ".com">>}

\* of the three example addresses a page yields info@acme.com
ExampleHolds ==
    (/\ emailCheck # <<>>
     /\ emailCheck.call = "_extract_email_from_page"
     /\ emailCheck.status = 200
     /\ ExampleOnly(emailCheck.matches)) =>
        emailCheck.email = <<"info", "@", "acme", ".com">>

----------------------------------------------------------------------------
(* Company website search of CompanyInfoExtractor *)

MaxResults == 2         \* result links on the Google page

\* the company names handed to the search
CompanyNames == {"", "N/A", "unknown", "Acme Corp.", "Bolt"}

\* company_name.lower()
LowerName(company_name) ==
    CASE company_name = "N/A"        -> "n/a"
      [] company_name = "Acme Corp." -> "acme corp."
      [] company_name = "Bolt"       -> "bolt"
      [] OTHER                       -> company_name

\* The links of a result page: href, whether it starts with 'http', and the
\* pieces of its host name; "/search?q=acme" is a link of Google itself.
ResultLinks ==
    {[href |-> "https://www.acme.com", http |-> TRUE,
      netloc |-> <<"www.", "acme.com">>],
     [href |-> "https://www.linkedin.com/company/acme", http |-> TRUE,
      netloc |-> <<"www.", "linkedin.com">>],
     [href |-> "https://en.wikipedia.org/wiki/Acme", http |-> TRUE,
      netloc |-> <<"en.", "wikipedia.org">>],
     [href |-> "https://maps.google.com/acme", http |-> TRUE,
      netloc |-> <<"maps.", "google.com">>],
     [href |-> "/search?q=acme", http |-> FALSE, netloc |-> <<>>]}

excluded_domains ==
    {"linkedin.com", "facebook.com", "twitter.com", "instagram.com",
     "youtube.com", "tiktok.com", "wikipedia.org", "quora.com", "reddit.com",
     "glassdoor.com", "indeed.com", "ziprecruiter.com"}

\* _is_valid_company_website(url)
IsValidCompanyWebsite(link) ==
    /\ link.http
    /\ ~\E excluded \in excluded_domains : InSeq(excluded, link.netloc)
    /\ ~InSeq("google.com", link.netloc)

\* _extract_first_valid_result: the first valid link, "" for None
RECURSIVE ExtractFirstValidResult(_, _)
ExtractFirstValidResult(results, i) ==
    IF i > Len(results) THEN ""
    ELSE IF IsValidCompanyWebsite(results[i]) THEN results[i].href
    ELSE ExtractFirstValidResult(results, i + 1)

\* What the browser does during one Google search: the driver cannot be set
\* up, the navigation raises, a CAPTCHA stays, or the result page loads.
GoogleOutcomes == {"no_driver", "navigation_error", "captcha", "loaded"}

\* _search_google_selenium(search_query): the pages requested and the result
SearchGoogleSelenium(search_query, outcome, results) ==
    IF outcome = "no_driver" THEN [requested |-> <<>>, result |-> ""]
    ELSE IF outcome \in {"navigation_error", "captcha"}
    THEN [requested |-> <<"https://google.com/search">>, result |-> ""]
    ELSE [requested |-> <<"https://google.com/search">>,
          result |-> ExtractFirstValidResult(results, 1)]

\* search_company_website(company_name)
SearchCompanyWebsite(company_name, outcome, results) ==
    IF company_name = "" \/ LowerName(company_name) \in {"n/a", "unknown"}
    THEN [requested |-> <<>>, result |-> ""]
    ELSE SearchGoogleSelenium(company_name, outcome, results)

otherThanWebsite == <<taskVars, callVars, dbVars, cleanupVars, scrapeVars, detectVars, urlSourceVars, fileVars, emailVars, sessionVars, viewVars, raceVars, enhanceVars, beatVars, tallyVars, statsRunsVars>>

WebsiteInit ==
    /\ websiteSearch = <<>>
    /\ TaskIdle /\ ProgressIdle /\ CallIdle /\ DbIdle /\ CleanupIdle /\ ScrapeIdle /\ DetectIdle /\ UrlSourceIdle /\ FileIdle /\ EmailIdle /\ SessionIdle /\ ViewIdle /\ RaceIdle /\ EnhanceIdle /\ BeatIdle /\ TallyIdle /\ StatsRunsIdle

\* the guessed home pages of a company that answer a request
GuessedSites(company_name) ==
    IF company_name = "Acme Corp."
    THEN <<"https://www.acme.com", "https://acme.com", "https://www.acme.org",
           "https://acme.org", "https://www.acme.net", "https://acme.net">>
    ELSE IF company_name = "Bolt"
    THEN <<"https://www.bolt.com", "https://bolt.com", "https://www.bolt.org",
           "https://bolt.org", "https://www.bolt.net", "https://bolt.net">>
    ELSE <<>>

\* one call of search_company_website; 'reachable' are the guessed home pages
\* that would answer a request
SearchCompanyWebsiteCall ==
    /\ websiteSearch = <<>>
    /\ \E company_name \in CompanyNames, outcome \in GoogleOutcomes,
          results \in SeqsUpTo(ResultLinks, MaxResults) :
       \E reachable \in SUBSET {GuessedSites(company_name)[i] :
                                   i \in 1..Len(GuessedSites(company_name))} :
          LET r == SearchCompanyWebsite(company_name, outcome, results)
          IN  websiteSearch' = [company_name |-> company_name,
                                reachable |-> reachable,
                                requested |-> r.requested,
                                result |-> r.result]
    /\ UNCHANGED otherThanWebsite

WebsiteNext == SearchCompanyWebsiteCall

\* One search_company_website call
SpecWebsite == WebsiteInit /\ [][WebsiteNext]_vars

\* the first k elements of the guesses, k the position of the first reachable
RECURSIVE ProbedUntilReachable(_, _, _)
ProbedUntilReachable(guesses, reachable, i) ==
    IF i > Len(guesses) THEN <<>>
    ELSE IF guesses[i] \in reachable THEN <<guesses[i]>>
    ELSE <<guesses[i]>> \o ProbedUntilReachable(guesses, reachable, i + 1)

\* C16: a search for a valid company name that ended without a website from
\* the search engine has probed the guessed home pages www.<name>.com,
\* <name>.com, www.<name>.org, <name>.org, www.<name>.net, <name>.net in that
\* order up to the first reachable one, and returned that one.
C16_DomainPatternFallback ==
    (/\ websiteSearch # <<>>
     /\ GuessedSites(websiteSearch.company_name) # <<>>
     /\ websiteSearch.result \notin {r.href : r \in ResultLinks}) =>
        LET guesses == GuessedSites(websiteSearch.company_name)
            probed == ProbedUntilReachable(guesses, websiteSearch.reachable, 1)
            google == IF websiteSearch.requested # <<>>
                         /\ Head(websiteSearch.requested) = "https://google.com/search"
                      THEN 1 ELSE 0
        IN  /\ SubSeq(websiteSearch.requested, google + 1,
                      Len(websiteSearch.requested)) = probed
            /\ websiteSearch.result =
                  (IF probed[Len(probed)] \in websiteSearch.reachable
                   THEN probed[Len(probed)] ELSE "")

----------------------------------------------------------------------------
(* scrape_jobs of the three source scrapers with their browser sessions *)
(* (scraper/base_scraper.py, indeed_scraper.py, glassdoor_scraper.py,     *)
(* linkedin_scraper.py, cloudflare_bypass.py)                              *)

\* max_retries the scrapers pass to bypass_cloudflare_challenge
BypassRetries == 2

\* The URLs handed to scrape_jobs: the host and whether the path is a jobs
\* search path ('/jobs/' for LinkedIn).
ScrapeUrls ==
    [netloc : {"www.indeed.com", "www.glassdoor.com", "www.linkedin.com",
               "linkedin.com", "example.org"},
     jobs_path : BOOLEAN]

\* LinkedInScraper._validate_url(url)
ValidateUrl(url) ==
    url.netloc \in {"www.linkedin.com", "linkedin.com"} /\ url.jobs_path

\* What launching a browser engine does: no session comes up, a session
\* comes up but the first page load (about:blank) raises, or all is well.
LaunchOutcomes == {"launch_failed", "blank_failed", "ok"}

\* _try_chrome / _try_firefox: the sessions afterwards and the driver
\* returned (0 for None).  A session is known by its position in 'sessions'.
TryEngine(ss, engine, outcome) ==
    IF outcome = "launch_failed" THEN [sessions |-> ss, driver |-> 0]
    ELSE LET launched == Append(ss, [engine |-> engine, live |-> TRUE])
         IN  IF outcome = "blank_failed"
             THEN [sessions |-> launched, driver |-> 0]
             ELSE [sessions |-> launched, driver |-> Len(launched)]

\* BaseScraper.setup_driver(): Chrome first, Firefox as fallback
SetupDriverOf(ss, chrome, firefox) ==
    LET c == TryEngine(ss, "chrome", chrome)
    IN  IF c.driver # 0 THEN c
        ELSE TryEngine(c.sessions, "firefox", firefox)

\* driver.quit()
Quit(ss, driver) ==
    IF driver = 0 THEN ss ELSE [ss EXCEPT ![driver].live = FALSE]

otherThanSession == <<taskVars, callVars, dbVars, cleanupVars, scrapeVars, detectVars, urlSourceVars, fileVars, emailVars, websiteVars, viewVars, raceVars, enhanceVars, beatVars, tallyVars, statsRunsVars>>

\* scrape_jobs(url, second) is entered on a fresh scraper: 'second' tells
\* whether the second argument is a count (the URL-based caller) or a text
SessionInit ==
    /\ scraper \in [source : ScraperNames, url : ScrapeUrls,
                    second : {"count", "text"}, pc : {"setup"}, driver : {0},
                    requested : {<<>>}, extracted : {0}, result : {<<>>}]
    /\ scraper.source = "linkedin" => scraper.second = "count"
    /\ sessions = <<>>
    /\ bypass = <<>>
    /\ TaskIdle /\ ProgressIdle /\ CallIdle /\ DbIdle /\ CleanupIdle /\ ScrapeIdle /\ DetectIdle /\ UrlSourceIdle /\ FileIdle /\ EmailIdle /\ WebsiteIdle /\ ViewIdle /\ RaceIdle /\ EnhanceIdle /\ BeatIdle /\ TallyIdle /\ StatsRunsIdle

\* 'return []' or an exception inside the try block: on to the finally block
Leave(s) == [s EXCEPT !.pc = "finally"]

\* self.setup_driver()
SetupDriver ==
    /\ scraper.pc = "setup"
    /\ \E chrome \in LaunchOutcomes, firefox \in LaunchOutcomes :
          LET r == SetupDriverOf(sessions, chrome, firefox)
          IN  /\ sessions' = r.sessions
              /\ scraper' = IF r.driver = 0 THEN Leave(scraper)
                            ELSE [scraper EXCEPT !.driver = r.driver,
                                                 !.pc = "navigate"]
    /\ UNCHANGED bypass
    /\ UNCHANGED otherThanSession

\* probe behaviours over n selectors in which only the first selector may
\* find something or raise
ProbesFirstOnly(n) ==
    {[i \in 1..n |-> IF i = 1 THEN o ELSE "none"] : o \in ProbeOutcomes}

\* the driver behaviours met while navigating; whether the bypass succeeds
\* is decided by the bypass steps below
NavBehaviours ==
    [page_source : {"raise", "indicator", "clean"},
     current_url : {"raise", "pattern", "clean"},
     elements    : ProbesFirstOnly(NumCfElements),
     indeed      : ProbesFirstOnly(NumIndeedIndicators),
     url_again   : {"raise", "ok"},
     bypassed    : {TRUE}]

\* the search pages the Indeed and Glassdoor scrapers build themselves
IndeedSearchUrl == "https://www.indeed.com/jobs?q=&l="
GlassdoorSearchUrl == "https://www.glassdoor.com/Job/jobs.htm?sc.keyword="

\* What a page load through hrequests gives: job listings, or anything else
\* (another page, another status, an exception)
FetchOutcomes == {"listings", "other"}

\* attempt counts the iterations begun, last is how the latest one ended and
\* slept whether the 10-20 s sleep followed it
NewBypass == [attempt |-> 0, driver |-> 0, last |-> "none", slept |-> FALSE]

\* IndeedScraper.navigate_to_search_page(job_title, location) up to the end
\* of the challenge check; a bypass, if one is needed, follows step by step
NavigateIndeed ==
    /\ scraper.pc = "navigate" /\ scraper.source = "indeed"
    /\ \E fetch \in FetchOutcomes, getOk \in BOOLEAN, waitOk \in BOOLEAN,
          b \in NavBehaviours :
          LET afterFetch == [scraper EXCEPT
                                !.requested = Append(@, IndeedSearchUrl)]
              afterGet == [afterFetch EXCEPT
                                !.requested = Append(@, IndeedSearchUrl)]
              check == CheckForChallenge(TRUE, b)
          IN  IF fetch = "listings"
              THEN scraper' = [afterFetch EXCEPT !.pc = "extract"] /\ UNCHANGED bypass
              ELSE IF ~getOk
              THEN scraper' = Leave(afterGet) /\ UNCHANGED bypass
              ELSE IF check.swapped
              THEN scraper' = [afterGet EXCEPT !.pc = "bypass"] /\ bypass' = NewBypass
              ELSE IF check.result \/ ~waitOk
              THEN scraper' = Leave(afterGet) /\ UNCHANGED bypass
              ELSE scraper' = [afterGet EXCEPT !.pc = "extract"] /\ UNCHANGED bypass
    /\ UNCHANGED sessions
    /\ UNCHANGED otherThanSession

\* GlassdoorScraper.navigate_search_page(job_title, location) up to the
\* challenge check: urllib.parse.quote raises TypeError for a location that
\* is a number
NavigateGlassdoor ==
    /\ scraper.pc = "navigate" /\ scraper.source = "glassdoor"
    /\ \E fetch \in FetchOutcomes, getOk \in BOOLEAN, listings \in BOOLEAN,
          b \in NavBehaviours :
          LET afterFetch == [scraper EXCEPT
                                !.requested = Append(@, GlassdoorSearchUrl)]
              afterGet == [afterFetch EXCEPT
                                !.requested = Append(@, GlassdoorSearchUrl)]
          IN  IF scraper.second = "count"
              THEN scraper' = Leave(scraper) /\ UNCHANGED bypass
              ELSE IF fetch = "listings"
              THEN scraper' = [afterFetch EXCEPT !.pc = "extract"] /\ UNCHANGED bypass
              ELSE IF ~getOk
              THEN scraper' = Leave(afterGet) /\ UNCHANGED bypass
              ELSE IF IsCloudflareChallenge(TRUE, b).result
              THEN scraper' = [afterGet EXCEPT !.pc = "bypass"] /\ bypass' = NewBypass
              ELSE IF ~listings
              THEN scraper' = Leave(afterGet) /\ UNCHANGED bypass
              ELSE scraper' = [afterGet EXCEPT !.pc = "extract"] /\ UNCHANGED bypass
    /\ UNCHANGED sessions
    /\ UNCHANGED otherThanSession

\* LinkedInScraper.navigate_to_url(url)
NavigateLinkedIn ==
    /\ scraper.pc = "navigate" /\ scraper.source = "linkedin"
    /\ \E getOk \in BOOLEAN, waitOk \in BOOLEAN :
          LET afterGet == [scraper EXCEPT
                              !.requested = Append(@, scraper.url.netloc)]
          IN  scraper' =
                IF ~ValidateUrl(scraper.url) THEN Leave(scraper)
                ELSE IF ~getOk \/ ~waitOk THEN Leave(afterGet)
                ELSE [afterGet EXCEPT !.pc = "extract"]
    /\ UNCHANGED <<sessions, bypass>>
    /\ UNCHANGED otherThanSession

\* What _create_undetected_driver does: no session comes up, a session comes
\* up but a stealth script raises before self.driver is set, or all is well.
CreateOutcomes == {"launch_failed", "stealth_failed", "ok"}

\* CloudflareBypass._create_undetected_driver() on the bypass object bp
CreateUndetectedDriver(ss, bp, outcome) ==
    IF outcome = "launch_failed" THEN [sessions |-> ss, bypass |-> bp, ok |-> FALSE]
    ELSE LET launched == Append(ss, [engine |-> "undetected", live |-> TRUE])
         IN  IF outcome = "stealth_failed"
             THEN [sessions |-> launched, bypass |-> bp, ok |-> FALSE]
             ELSE [sessions |-> launched,
                   bypass |-> [bp EXCEPT !.driver = Len(launched)], ok |-> TRUE]

SearchUrlOf(source) ==
    IF source = "indeed" THEN IndeedSearchUrl ELSE GlassdoorSearchUrl

\* One iteration of the loop of bypass_with_retry.  When it returns True the
\* scraper takes the bypass driver over, closes its old one and finishes the
\* navigation ('found': the job listings are there).
BypassAttempt ==
    /\ scraper.pc = "bypass"
    /\ bypass.attempt < BypassRetries
    /\ \E create \in CreateOutcomes, getOk \in BOOLEAN, completed \in BOOLEAN,
          found \in BOOLEAN, b \in NavBehaviours :
          LET fresh == bypass.driver = 0 \/ bypass.attempt > 0
              quitted == IF fresh THEN Quit(sessions, bypass.driver) ELSE sessions
              c == IF fresh THEN CreateUndetectedDriver(quitted, bypass, create)
                   ELSE [sessions |-> sessions, bypass |-> bypass, ok |-> TRUE]
              next(how) ==
                  [c.bypass EXCEPT !.attempt = @ + 1, !.last = how,
                                   !.slept = /\ how = "raised"
                                             /\ bypass.attempt < BypassRetries - 1]
              visited == [scraper EXCEPT
                            !.requested = Append(@, SearchUrlOf(scraper.source))]
              passed == ~IsCloudflareChallenge(TRUE, b).result \/ completed
          IN  IF ~c.ok
              THEN /\ sessions' = c.sessions
                   /\ bypass' = next("create_failed")
                   /\ UNCHANGED scraper
              ELSE IF ~getOk \/ ~passed
              THEN /\ sessions' = c.sessions
                   /\ bypass' = next(IF ~getOk THEN "raised" ELSE "timeout")
                   /\ scraper' = visited
              ELSE /\ sessions' = Quit(c.sessions, scraper.driver)
                   /\ bypass' = <<>>
                   /\ scraper' = IF found
                                 THEN [visited EXCEPT !.driver = c.bypass.driver,
                                                      !.pc = "extract"]
                                 ELSE Leave([visited EXCEPT
                                               !.driver = c.bypass.driver])
    /\ UNCHANGED otherThanSession

\* bypass_with_retry returns False after the last attempt:
\* bypass_cloudflare_challenge cleans the bypass object up and returns None,
\* the navigation returns False
BypassGiveUp ==
    /\ scraper.pc = "bypass"
    /\ bypass.attempt = BypassRetries
    /\ sessions' = Quit(sessions, bypass.driver)
    /\ bypass' = <<>>
    /\ scraper' = Leave(scraper)
    /\ UNCHANGED otherThanSession

\* the extraction loop of scrape_jobs: k postings are collected, then the
\* loop ends or an exception ends it
Extract ==
    /\ scraper.pc = "extract"
    /\ \E k \in 0..MaxCards :
          scraper' = [scraper EXCEPT !.extracted = k,
                                     !.result = [i \in 1..k |-> i],
                                     !.pc = "finally"]
    /\ UNCHANGED <<sessions, bypass>>
    /\ UNCHANGED otherThanSession

\* finally: self.quit_driver(), then the return
Finally ==
    /\ scraper.pc = "finally"
    /\ sessions' = Quit(sessions, scraper.driver)
    /\ scraper' = [scraper EXCEPT !.pc = "returned"]
    /\ UNCHANGED bypass
    /\ UNCHANGED otherThanSession

SessionNext ==
    \/ SetupDriver
    \/ NavigateIndeed
    \/ NavigateGlassdoor
    \/ NavigateLinkedIn
    \/ BypassAttempt
    \/ BypassGiveUp
    \/ Extract
    \/ Finally

\* One scrape_jobs call of one scraper
SpecSession == SessionInit /\ [][SessionNext]_vars

\* the stealth sessions that are open
LiveStealth == {i \in 1..Len(sessions) :
                   sessions[i].engine = "undetected" /\ sessions[i].live}

\* C22: bypass_with_retry makes at most max_retries attempts; at most one
\* stealth session is open at a time; an attempt that ended with the poll
\* window exhausted is followed by the wait whenever another attempt is
\* left; and once bypass_cloudflare_challenge has reported failure no stealth
\* session is open.
C22_BypassRetryDiscipline ==
    scraper # <<>> =>
        /\ bypass # <<>> =>
              /\ bypass.attempt <= BypassRetries
              /\ (bypass.last = "timeout" /\ bypass.attempt < BypassRetries)
                    => bypass.slept
        /\ Cardinality(LiveStealth) <= 1
        /\ (bypass = <<>> /\ scraper.driver \notin LiveStealth) => LiveStealth = {}

\* the host a source's scraper is made for
HostOf(source) ==
    CASE source = "indeed"    -> {"www.indeed.com"}
      [] source = "glassdoor" -> {"www.glassdoor.com"}
      [] source = "linkedin"  -> {"www.linkedin.com", "linkedin.com"}

\* C17: scrape_jobs given a URL of another domain, or without a jobs-search
\* path, returns an empty list and has requested and extracted no page.
C17_WrongUrlHardStop ==
    (/\ scraper # <<>>
     /\ scraper.pc = "returned"
     /\ (scraper.url.netloc \notin HostOf(scraper.source) \/ ~scraper.url.jobs_path)) =>
        /\ scraper.result = <<>>
        /\ scraper.requested = <<>>
        /\ scraper.extracted = 0

\* C18: when scrape_jobs returns, every browser session launched during the
\* call is closed; and the scraper's active driver is always one session.
C18_SessionsClosed ==
    (scraper # <<>> /\ scraper.pc = "returned") =>
        \A i \in 1..Len(sessions) : ~sessions[i].live

----------------------------------------------------------------------------
(* The dashboard's fragment views (jobs/frontend_views.py): the schedule    *)
(* form and the HTMX-only endpoints.  A request carries its HTTP method and *)
(* whether the HTMX marker header is present (request.htmx).                *)

\* PeriodicTask rows in the table in a run of schedule requests
MaxTasks == 2

\* PeriodicTask rows in the table in a run over all fragment endpoints
MaxFragmentTasks == 1

\* int(s) for the texts the forms send; the empty set is a ValueError
ParseInt(s) ==
    CASE s \in {"09", "9"}  -> {9}
      [] s \in {"00", "0"}  -> {0}
      [] s \in {"01", "1"}  -> {1}
      [] s = "2"            -> {2}
      [] s = "3"            -> {3}
      [] s = "11"           -> {11}
      [] s = "1441"         -> {1441}
      [] OTHER              -> {}

\* f"{n}" and f"{n:02d}" of the numbers above
Str(n) == CASE n = 0 -> "0" [] n = 1 -> "1" [] n = 9 -> "9" [] n = 1441 -> "1441"
Str02(n) == CASE n = 0 -> "00" [] n = 1 -> "01" [] n = 9 -> "09"

\* the dates a form can carry: datetime.strptime gives their day number (for
\* the comparison with now), and .day / .month for the crontab
FormDates == {"2026-11-02", "2026-11-03"}
DayNo(date) ==
    CASE date = "2026-11-02" -> 2 [] date = "2026-11-03" -> 3
DayOf(date) ==
    CASE date = "2026-11-02" -> "2" [] date = "2026-11-03" -> "3"
MonthOf(date) == "11"

\* datetime.now() as the view reads it: a day number, an hour and a minute
Clock == {<<3, 8, 0>>, <<3, 10, 0>>}

\* schedule_datetime <= datetime.now()
NotAfter(dt, clock) ==
    \/ dt[1] < clock[1]
    \/ dt[1] = clock[1] /\ dt[2] < clock[2]
    \/ dt[1] = clock[1] /\ dt[2] = clock[2] /\ dt[3] <= clock[3]

\* 'minutes < 1 or minutes > 1440' does not hold
MinutesInRangeNoUpper(minutes) == ~(minutes < 1)

MinutesInRange(minutes) == ~(minutes < 1 \/ minutes > 1440)

\* the schedule form's fields as request.POST holds them ("" is a field that
\* was not sent)
NewForm(job_title, interval) ==
    [job_title |-> job_title, location |-> "Remote", interval |-> interval,
     schedule_time |-> <<"09", "00">>, custom_minutes |-> "",
     days_of_week |-> <<>>, day_of_month |-> "", schedule_date |-> ""]

\* the forms sent to the schedule endpoint in the run of requests that is
\* checked for what it creates
ScheduleForms ==
    {NewForm("", "daily")}
    \cup {[NewForm("dev", "custom") EXCEPT !.custom_minutes = m] :
             m \in {"", "0", "1", "01", "1441", "abc"}}
    \cup {NewForm("dev", i) : i \in {"weekly", "yearly"}}
    \cup {[NewForm("dev", "daily") EXCEPT !.schedule_time = st] :
             st \in {<<"09", "00">>, <<"9", "00">>, <<"soon">>}}
    \cup {[NewForm("dev", "once") EXCEPT !.schedule_date = d] :
             d \in FormDates \cup {""}}

\* the forms sent in the run that mixes all fragment endpoints
FragmentForms ==
    {NewForm("dev", i) : i \in {"30min", "hourly"}}
    \cup {[NewForm("dev", "monthly") EXCEPT !.day_of_month = d] : d \in {"", "last"}}

IntervalScheduleOf(every) == [table |-> "interval", every |-> every]

\* a CrontabSchedule row; "*" in a field is any
CrontabScheduleOf(minute, hour, day_of_week, day_of_month, month_of_year) ==
    [table |-> "crontab", minute |-> minute, hour |-> hour,
     day_of_week |-> day_of_week, day_of_month |-> day_of_month,
     month_of_year |-> month_of_year]

day_names ==
    [d \in {"0", "1", "2", "3", "4", "5", "6"} |->
        CASE d = "0" -> "Sun" [] d = "1" -> "Mon" [] d = "2" -> "Tue"
          [] d = "3" -> "Wed" [] d = "4" -> "Thu" [] d = "5" -> "Fri"
          [] d = "6" -> "Sat"]

\* task_name: "Scheduled Scrape: {job_title} in {location}" and the text in
\* brackets the interval branch adds, piece by piece
TaskName(job_title, location, suffix) ==
    <<"Scheduled Scrape:", job_title, "in", location>> \o suffix

\* The interval branches of schedule_scraping: the schedule row that is
\* fetched or created and the suffix of the task name, or the error the
\* branch renders.
ScheduleFor(form, hour, minute, clock) ==
    LET hh == Str02(hour)
        mm == Str02(minute)
        Ok(schedule, suffix) ==
            [ok |-> TRUE, schedule |-> schedule, suffix |-> suffix]
        Error == [ok |-> FALSE, schedule |-> <<>>, suffix |-> <<>>]
    IN  CASE form.interval = "custom" ->
               IF form.custom_minutes = "" THEN Error
               ELSE IF ParseInt(form.custom_minutes) = {} THEN Error
               ELSE LET minutes == CHOOSE n \in ParseInt(form.custom_minutes) : TRUE
                    IN  IF ~MinutesInRange(minutes) THEN Error
                        ELSE Ok(IntervalScheduleOf(minutes),
                                <<"(every", Str(minutes), "min)">>)
          [] form.interval = "30min" ->
               Ok(IntervalScheduleOf(30), <<"(every 30min)">>)
          [] form.interval = "hourly" ->
               Ok(CrontabScheduleOf(mm, "*", <<"*">>, "*", "*"),
                  <<"(hourly at", mm, ")">>)
          [] form.interval = "daily" ->
               Ok(CrontabScheduleOf(mm, hh, <<"*">>, "*", "*"),
                  <<"(daily at", hh, mm, ")">>)
          [] form.interval = "weekly" ->
               LET days_of_week == IF form.days_of_week = <<>> THEN <<"1">>
                                   ELSE form.days_of_week
               IN  Ok(CrontabScheduleOf(mm, hh, days_of_week, "*", "*"),
                      <<"(">> \o [i \in 1..Len(days_of_week) |->
                                     day_names[days_of_week[i]]]
                              \o <<"at", hh, mm, ")">>)
          [] form.interval = "monthly" ->
               LET day_of_month == IF form.day_of_month = "" THEN "1"
                                   ELSE form.day_of_month
               IN  IF day_of_month = "last"
                   THEN Ok(CrontabScheduleOf(mm, hh, <<"*">>, "28-31", "*"),
                           <<"(last day at", hh, mm, ")">>)
                   ELSE Ok(CrontabScheduleOf(mm, hh, <<"*">>, day_of_month, "*"),
                           <<"(", day_of_month, "th at", hh, mm, ")">>)
          [] form.interval = "once" ->
               IF form.schedule_date = "" THEN Error
               ELSE IF NotAfter(<<DayNo(form.schedule_date), hour, minute>>, clock)
               THEN Error
               ELSE Ok(CrontabScheduleOf(mm, hh, <<"*">>, DayOf(form.schedule_date),
                                         MonthOf(form.schedule_date)),
                       <<"(once on", form.schedule_date, "at", hh, mm, ")">>)
          [] OTHER -> Error

\* what a view hands back: the tables as it leaves them and its response
Response(tasks, scheds, rows, status, template) ==
    [tasks |-> tasks, schedules |-> scheds, jobs |-> rows,
     status |-> status, template |-> template]

\* @require_http_methods: another method is answered before the view runs
MethodNotAllowed(tasks, scheds, rows) == Response(tasks, scheds, rows, 405, "")

\* JsonResponse({'error': 'HTMX required'}, status=400)
HtmxRequired(tasks, scheds, rows) == Response(tasks, scheds, rows, 400, "json_error")

\* schedule_scraping(request).  id is the key the table gives a new row;
\* createOk is whether PeriodicTask.objects.create and the save after it go
\* through (the table's own validation or the database can refuse).
ScheduleScrapingView(req, tasks, scheds, rows, clock, id, createOk) ==
    LET form == req.param
        Error(ss) == Response(tasks, ss, rows, 200, "schedule_error")
        time_parts == form.schedule_time
    IN  IF req.method # "POST" THEN MethodNotAllowed(tasks, scheds, rows)
        ELSE IF ~req.htmx THEN HtmxRequired(tasks, scheds, rows)
        ELSE IF form.job_title = "" THEN Error(scheds)
        ELSE IF \/ Len(time_parts) < 2
                \/ ParseInt(time_parts[1]) = {}
                \/ ParseInt(time_parts[2]) = {}
        THEN Error(scheds)
        ELSE LET hour == CHOOSE n \in ParseInt(time_parts[1]) : TRUE
                 minute == CHOOSE n \in ParseInt(time_parts[2]) : TRUE
                 s == ScheduleFor(form, hour, minute, clock)
                 task_name == TaskName(form.job_title, form.location, s.suffix)
                 found == scheds \cup {s.schedule}
                 periodic_task ==
                     [id |-> id, name |-> task_name,
                      task |-> "celery_tasks.tasks.scrape_jobs_task",
                      job_title |-> form.job_title, location |-> form.location,
                      kwargs |-> [job_title |-> form.job_title,
                                  location |-> form.location,
                                  sources |-> <<"indeed">>, max_jobs |-> 25],
                      enabled |-> TRUE, schedule |-> s.schedule]
             IN  IF ~s.ok THEN Error(scheds)
                 ELSE IF \E i \in 1..Len(tasks) : tasks[i].name = task_name
                 THEN Error(found)
                 ELSE IF ~createOk THEN Error(found)
                 ELSE Response(Append(tasks, periodic_task), found, rows,
                               200, "schedule_success")

\* the key of the next PeriodicTask row
NextId(tasks) == IF tasks = <<>> THEN 1 ELSE tasks[Len(tasks)].id + 1

otherThanView == <<taskVars, callVars, dbVars, cleanupVars, scrapeVars, detectVars, urlSourceVars, fileVars, emailVars, websiteVars, sessionVars, raceVars, enhanceVars, beatVars, tallyVars, statsRunsVars>>

\* the method @require_http_methods registers each view for
AllowedMethod(view) ==
    CASE view \in {"delete_job", "delete_scheduled_task"} -> "DELETE"
      [] view \in {"toggle_job_favorite", "toggle_scheduled_task",
                   "schedule_scraping"} -> "POST"
      [] OTHER -> "GET"

\* the methods requests to a view come with: the registered one and another
MethodsFor(view) ==
    {AllowedMethod(view), IF AllowedMethod(view) = "GET" THEN "POST" ELSE "GET"}

\* the last exchange as the model keeps it
Exchange(req, clock, r) ==
    [request |-> req, clock |-> clock, status |-> r.status, template |-> r.template]

Request(view, method, htmx, param) ==
    [view |-> view, method |-> method, htmx |-> htmx, param |-> param]

\* a request to the schedule form, one of a run of such requests
ScheduleScraping ==
    /\ \E form \in ScheduleForms, method \in MethodsFor("schedule_scraping"),
          htmx \in BOOLEAN, createOk \in BOOLEAN :
       \E clock \in IF form.interval = "once" THEN Clock ELSE {<<>>} :
          LET req == Request("schedule_scraping", method, htmx, form)
              r == ScheduleScrapingView(req, periodicTasks, schedules, jobRows,
                                        clock, NextId(periodicTasks), createOk)
          IN  /\ Len(r.tasks) <= MaxTasks
              /\ periodicTasks' = r.tasks
              /\ schedules' = r.schedules
              /\ jobRows' = r.jobs
              /\ http' = Exchange(req, clock, r)
    /\ UNCHANGED otherThanView

ScheduleInit ==
    /\ periodicTasks = <<>>
    /\ schedules = {}
    /\ jobRows = {}
    /\ http = <<>>
    /\ TaskIdle /\ ProgressIdle /\ CallIdle /\ DbIdle /\ CleanupIdle /\ ScrapeIdle /\ DetectIdle /\ UrlSourceIdle /\ FileIdle /\ EmailIdle /\ WebsiteIdle /\ SessionIdle /\ RaceIdle /\ EnhanceIdle /\ BeatIdle /\ TallyIdle /\ StatsRunsIdle

ScheduleNext == ScheduleScraping

\* Requests to the schedule form, one after another
SpecSchedule == ScheduleInit /\ [][ScheduleNext]_vars


\* get_object_or_404(PeriodicTask, id=task_id): the row's position, 0 if none
RowOf(tasks, task_id) ==
    IF \E i \in 1..Len(tasks) : tasks[i].id = task_id
    THEN CHOOSE i \in 1..Len(tasks) : tasks[i].id = task_id
    ELSE 0

RemoveAt(seq, i) == SubSeq(seq, 1, i - 1) \o SubSeq(seq, i + 1, Len(seq))

\* delete_job(request, job_id) that does not look at request.htmx
DeleteJobViewAnyCaller(req, tasks, scheds, rows) ==
    IF req.method # "DELETE" THEN MethodNotAllowed(tasks, scheds, rows)
    ELSE IF req.param \notin rows THEN Response(tasks, scheds, rows, 404, "")
    ELSE Response(tasks, scheds, rows \ {req.param}, 200, "")

\* delete_job(request, job_id); Http404 is not caught by the view
DeleteJobView(req, tasks, scheds, rows) ==
    IF req.method # "DELETE" THEN MethodNotAllowed(tasks, scheds, rows)
    ELSE IF ~req.htmx THEN HtmxRequired(tasks, scheds, rows)
    ELSE IF req.param \notin rows THEN Response(tasks, scheds, rows, 404, "")
    ELSE Response(tasks, scheds, rows \ {req.param}, 200, "")

\* toggle_job_favorite(request, job_id): the toggle itself is commented out
ToggleJobFavoriteView(req, tasks, scheds, rows) ==
    IF req.method # "POST" THEN MethodNotAllowed(tasks, scheds, rows)
    ELSE IF ~req.htmx THEN HtmxRequired(tasks, scheds, rows)
    ELSE IF req.param \notin rows THEN Response(tasks, scheds, rows, 404, "")
    ELSE Response(tasks, scheds, rows, 200, "favorite_button")

\* toggle_scheduled_task(request, task_id); the Http404 of a missing row is
\* an Exception and ends in the view's own except branch, as does a save
\* that fails
ToggleScheduledTaskView(req, tasks, scheds, rows, saveOk) ==
    LET i == RowOf(tasks, req.param)
    IN  IF req.method # "POST" THEN MethodNotAllowed(tasks, scheds, rows)
        ELSE IF ~req.htmx THEN HtmxRequired(tasks, scheds, rows)
        ELSE IF i = 0 \/ ~saveOk
        THEN Response(tasks, scheds, rows, 200, "schedule_error")
        ELSE Response([tasks EXCEPT ![i].enabled = ~@], scheds, rows,
                      200, "scheduled_task_item")

\* delete_scheduled_task(request, task_id)
DeleteScheduledTaskView(req, tasks, scheds, rows, saveOk) ==
    LET i == RowOf(tasks, req.param)
    IN  IF req.method # "DELETE" THEN MethodNotAllowed(tasks, scheds, rows)
        ELSE IF ~req.htmx THEN HtmxRequired(tasks, scheds, rows)
        ELSE IF i = 0 \/ ~saveOk
        THEN Response(tasks, scheds, rows, 200, "schedule_error")
        ELSE Response(RemoveAt(tasks, i), scheds, rows, 200, "")

\* scheduled_tasks(request), dashboard_stats(request): they only read
ReadOnlyView(req, tasks, scheds, rows, template) ==
    IF req.method # "GET" THEN MethodNotAllowed(tasks, scheds, rows)
    ELSE IF ~req.htmx THEN HtmxRequired(tasks, scheds, rows)
    ELSE Response(tasks, scheds, rows, 200, template)

\* request.GET.get('q', '').strip() for the queries sent
Queries == {"", " d ", "de"}
StripQuery(q) == IF q = " d " THEN "d" ELSE q
QueryLen(q) == CASE q = "" -> 0 [] q = "d" -> 1 [] q = "de" -> 2

\* job_search_suggestions(request)
JobSearchSuggestionsView(req, tasks, scheds, rows) ==
    IF req.method # "GET" THEN MethodNotAllowed(tasks, scheds, rows)
    ELSE IF ~req.htmx THEN HtmxRequired(tasks, scheds, rows)
    ELSE IF QueryLen(StripQuery(req.param)) < 2
    THEN Response(tasks, scheds, rows, 200, "")
    ELSE Response(tasks, scheds, rows, 200, "search_suggestions")

\* the Job rows present, and the ids requests name
JobIds == {1}
RequestIds == {1, 2}

\* a request to the schedule form in a run over all fragment endpoints
ScheduleScrapingFragment ==
    /\ \E form \in FragmentForms, method \in MethodsFor("schedule_scraping"),
          htmx \in BOOLEAN, createOk \in BOOLEAN :
          LET req == Request("schedule_scraping", method, htmx, form)
              r == ScheduleScrapingView(req, periodicTasks, schedules, jobRows,
                                        <<>>, NextId(periodicTasks), createOk)
          IN  /\ Len(r.tasks) <= MaxFragmentTasks
              /\ periodicTasks' = r.tasks
              /\ schedules' = r.schedules
              /\ jobRows' = r.jobs
              /\ http' = Exchange(req, <<>>, r)
    /\ UNCHANGED otherThanView

DeleteJob ==
    /\ \E method \in MethodsFor("delete_job"), htmx \in BOOLEAN, job_id \in RequestIds :
          LET req == Request("delete_job", method, htmx, job_id)
              r == DeleteJobView(req, periodicTasks, schedules, jobRows)
          IN  /\ periodicTasks' = r.tasks
              /\ schedules' = r.schedules
              /\ jobRows' = r.jobs
              /\ http' = Exchange(req, <<>>, r)
    /\ UNCHANGED otherThanView

ToggleJobFavorite ==
    /\ \E method \in MethodsFor("toggle_job_favorite"), htmx \in BOOLEAN, job_id \in RequestIds :
          LET req == Request("toggle_job_favorite", method, htmx, job_id)
              r == ToggleJobFavoriteView(req, periodicTasks, schedules, jobRows)
          IN  /\ periodicTasks' = r.tasks
              /\ schedules' = r.schedules
              /\ jobRows' = r.jobs
              /\ http' = Exchange(req, <<>>, r)
    /\ UNCHANGED otherThanView

ToggleScheduledTask ==
    /\ \E method \in MethodsFor("toggle_scheduled_task"), htmx \in BOOLEAN,
          task_id \in RequestIds, saveOk \in BOOLEAN :
          LET req == Request("toggle_scheduled_task", method, htmx, task_id)
              r == ToggleScheduledTaskView(req, periodicTasks, schedules, jobRows, saveOk)
          IN  /\ periodicTasks' = r.tasks
              /\ schedules' = r.schedules
              /\ jobRows' = r.jobs
              /\ http' = Exchange(req, <<>>, r)
    /\ UNCHANGED otherThanView

DeleteScheduledTask ==
    /\ \E method \in MethodsFor("delete_scheduled_task"), htmx \in BOOLEAN,
          task_id \in RequestIds, saveOk \in BOOLEAN :
          LET req == Request("delete_scheduled_task", method, htmx, task_id)
              r == DeleteScheduledTaskView(req, periodicTasks, schedules, jobRows, saveOk)
          IN  /\ periodicTasks' = r.tasks
              /\ schedules' = r.schedules
              /\ jobRows' = r.jobs
              /\ http' = Exchange(req, <<>>, r)
    /\ UNCHANGED otherThanView

ScheduledTasks ==
    /\ \E method \in MethodsFor("scheduled_tasks"), htmx \in BOOLEAN :
          LET req == Request("scheduled_tasks", method, htmx, <<>>)
              r == ReadOnlyView(req, periodicTasks, schedules, jobRows, "scheduled_tasks")
          IN  /\ periodicTasks' = r.tasks
              /\ schedules' = r.schedules
              /\ jobRows' = r.jobs
              /\ http' = Exchange(req, <<>>, r)
    /\ UNCHANGED otherThanView

DashboardStats ==
    /\ \E method \in MethodsFor("dashboard_stats"), htmx \in BOOLEAN :
          LET req == Request("dashboard_stats", method, htmx, <<>>)
              r == ReadOnlyView(req, periodicTasks, schedules, jobRows,
                                "dashboard_stats_partial")
          IN  /\ periodicTasks' = r.tasks
              /\ schedules' = r.schedules
              /\ jobRows' = r.jobs
              /\ http' = Exchange(req, <<>>, r)
    /\ UNCHANGED otherThanView

JobSearchSuggestions ==
    /\ \E method \in MethodsFor("job_search_suggestions"), htmx \in BOOLEAN, q \in Queries :
          LET req == Request("job_search_suggestions", method, htmx, q)
              r == JobSearchSuggestionsView(req, periodicTasks, schedules, jobRows)
          IN  /\ periodicTasks' = r.tasks
              /\ schedules' = r.schedules
              /\ jobRows' = r.jobs
              /\ http' = Exchange(req, <<>>, r)
    /\ UNCHANGED otherThanView

FragmentInit ==
    /\ periodicTasks = <<>>
    /\ schedules = {}
    /\ jobRows = JobIds
    /\ http = <<>>
    /\ TaskIdle /\ ProgressIdle /\ CallIdle /\ DbIdle /\ CleanupIdle /\ ScrapeIdle /\ DetectIdle /\ UrlSourceIdle /\ FileIdle /\ EmailIdle /\ WebsiteIdle /\ SessionIdle /\ RaceIdle /\ EnhanceIdle /\ BeatIdle /\ TallyIdle /\ StatsRunsIdle

FragmentNext ==
    \/ ScheduleScrapingFragment
    \/ DeleteJob
    \/ ToggleJobFavorite
    \/ ToggleScheduledTask
    \/ DeleteScheduledTask
    \/ ScheduledTasks
    \/ DashboardStats
    \/ JobSearchSuggestions

\* Requests to the fragment-only endpoints, one after another
SpecFragments == FragmentInit /\ [][FragmentNext]_vars

\* the views that answer fragments only
FragmentOnly ==
    {"delete_job", "toggle_job_favorite", "toggle_scheduled_task",
     "delete_scheduled_task", "schedule_scraping", "scheduled_tasks",
     "dashboard_stats", "job_search_suggestions"}

\* C20 as stated: every request to a fragment-only endpoint without the HTMX
\* marker header is answered with status 400 and leaves the Job and
\* PeriodicTask rows as they were.
C20_NoMarkerIs400 ==
    [][(/\ http' # <<>>
        /\ http'.request.view \in FragmentOnly
        /\ ~http'.request.htmx) =>
           /\ http'.status = 400
           /\ periodicTasks' = periodicTasks
           /\ jobRows' = jobRows]_vars

\* C20, amended: such a request is answered with status 400 when it uses the
\* method the endpoint allows and with status 405 when it uses another, and
\* in both cases leaves the Job and PeriodicTask rows as they were.
C20_NoMarkerIsClientError ==
    [][(/\ http' # <<>>
        /\ http'.request.view \in FragmentOnly
        /\ ~http'.request.htmx) =>
           /\ http'.status =
                 IF http'.request.method = AllowedMethod(http'.request.view)
                 THEN 400 ELSE 405
           /\ periodicTasks' = periodicTasks
           /\ jobRows' = jobRows]_vars

\* a job and an enabled task exist and a DELETE for the job without the
\* marker header has been answered with 400
C20_Witness ==
    /\ http # <<>>
    /\ http.request = Request("delete_job", "DELETE", FALSE, 1)
    /\ http.status = 400
    /\ 1 \in jobRows
    /\ Len(periodicTasks) = 1

\* The four cases of C19 in a handled request: what the operator sent, read
\* off the request and the table as it was before.
CustomOutOfRange(form) ==
    /\ form.interval = "custom"
    /\ \E n \in ParseInt(form.custom_minutes) : n < 1 \/ n > 1440

OnceNotFuture(form, clock) ==
    /\ form.interval = "once"
    /\ form.schedule_date # ""
    /\ \E h \in ParseInt(form.schedule_time[1]), m \in ParseInt(form.schedule_time[2]) :
          ~(\/ DayNo(form.schedule_date) > clock[1]
            \/ DayNo(form.schedule_date) = clock[1] /\ h > clock[2]
            \/ DayNo(form.schedule_date) = clock[1] /\ h = clock[2] /\ m > clock[3])

Rejected(response) ==
    /\ response.request.view = "schedule_scraping"
    /\ \/ CustomOutOfRange(response.request.param)
       \/ OnceNotFuture(response.request.param, response.clock)
       \/ response.request.param.job_title = ""

Names(tasks) == {tasks[i].name : i \in 1..Len(tasks)}

\* C19: a schedule_scraping request with a custom interval outside 1..1440,
\* a 'once' date/time not strictly in the future or no job title leaves the
\* PeriodicTask table as it was; a request that does add a row adds one whose
\* name no existing row has and changes no other row; so the names in the
\* table stay pairwise different.
C19_RejectedFormsCreateNothing ==
    [][/\ (http' # <<>> /\ Rejected(http')) => periodicTasks' = periodicTasks
       /\ periodicTasks' # periodicTasks =>
             /\ Len(periodicTasks') = Len(periodicTasks) + 1
             /\ SubSeq(periodicTasks', 1, Len(periodicTasks)) = periodicTasks
             /\ periodicTasks'[Len(periodicTasks')].name \notin Names(periodicTasks)
       /\ \A i, j \in 1..Len(periodicTasks') :
             periodicTasks'[i].name = periodicTasks'[j].name => i = j]_vars

\* two tasks are scheduled and a request repeating the second one's
\* configuration in another spelling has been turned down
C19_Witness ==
    /\ http # <<>>
    /\ Len(periodicTasks) = 2
    /\ http.request.method = "POST"
    /\ http.request.htmx
    /\ http.request.param.custom_minutes = "01"
    /\ http.template = "schedule_error"
    /\ \E i \in 1..2 : periodicTasks[i].schedule = IntervalScheduleOf(1)

----------------------------------------------------------------------------
(* Two scrape runs inside save_to_django_db at the same time.  Every        *)
(* database statement is one step: the lookup and the insert of            *)
(* Company.objects.get_or_create, the lookup and the insert of             *)
(* Job.objects.update_or_create.                                           *)

RunIds == {1, 2}

\* the postings of the two runs: the same company, which no row names yet
RacePostings ==
    {p \in Postings : /\ p.company = "Acme"
                      /\ p.title = "Developer"
                      /\ p.scraped_at = 0
                      /\ p.company_website \in {"", "https://acme.io"}}

otherThanRace == <<taskVars, callVars, processed, cleanupVars, scrapeVars, detectVars, urlSourceVars, fileVars, emailVars, websiteVars, sessionVars, viewVars, enhanceVars, beatVars, tallyVars, statsRunsVars>>

RaceInit ==
    /\ runs \in [RunIds -> {[job_data |-> p, pc |-> "get", company |-> 0,
                             created |-> FALSE, lost |-> FALSE,
                             saved |-> FALSE] :
                               p \in RacePostings}]
    /\ companies = {}
    /\ jobs = {}
    /\ processed = <<>>
    /\ now = 10
    /\ runTable = <<>> /\ progressTable = {} /\ cleanup = <<>>
    /\ TaskIdle /\ ProgressIdle /\ CallIdle /\ ScrapeIdle /\ DetectIdle /\ UrlSourceIdle /\ FileIdle /\ EmailIdle /\ WebsiteIdle /\ SessionIdle /\ ViewIdle /\ EnhanceIdle /\ BeatIdle /\ TallyIdle /\ StatsRunsIdle

\* lines 92-106 for a company that was found: created is False, empty
\* fields are filled and the row saved
UseExisting(rows, job_data) ==
    LET old == CHOOSE c \in rows : c.name = job_data.company
        c == Backfill(old, job_data)
    IN  [companies |-> (rows \ {old}) \cup {c}, company |-> c.id]

\* the INSERT of get_or_create that lets the unique-name violation out of
\* get_or_create: the posting's try block ends in 'except ...: continue'
InsertCompanyRaising(rows, job_data) ==
    IF \E c \in rows : c.name = job_data.company
    THEN [companies |-> rows, company |-> 0, created |-> FALSE, raised |-> TRUE]
    ELSE [companies |-> rows \cup {[id |-> Cardinality(rows) + 1,
                                    name |-> job_data.company,
                                    company_website |-> job_data.company_website,
                                    company_email |-> job_data.company_email]},
          company |-> Cardinality(rows) + 1, created |-> TRUE, raised |-> FALSE]

\* the INSERT of get_or_create (line 84): Company.name is unique, so the
\* insert of a name that appeared since the lookup fails, and get_or_create
\* answers with the row that is there
InsertCompany(rows, job_data) ==
    IF \E c \in rows : c.name = job_data.company
    THEN [companies |-> UseExisting(rows, job_data).companies,
          company |-> UseExisting(rows, job_data).company,
          created |-> FALSE, raised |-> FALSE]
    ELSE [companies |-> rows \cup {[id |-> Cardinality(rows) + 1,
                                    name |-> job_data.company,
                                    company_website |-> job_data.company_website,
                                    company_email |-> job_data.company_email]},
          company |-> Cardinality(rows) + 1, created |-> TRUE, raised |-> FALSE]

\* the lookup of Company.objects.get_or_create(name=company_name)
CompanyGet(r) ==
    /\ runs[r].pc = "get"
    /\ IF \E c \in companies : c.name = runs[r].job_data.company
       THEN LET u == UseExisting(companies, runs[r].job_data)
            IN  /\ companies' = u.companies
                /\ runs' = [runs EXCEPT ![r].company = u.company, ![r].pc = "job_get"]
       ELSE /\ runs' = [runs EXCEPT ![r].pc = "create"]
            /\ UNCHANGED companies
    /\ UNCHANGED jobs
    /\ UNCHANGED otherThanRace

\* its insert, after a lookup that found nothing
CompanyCreate(r) ==
    /\ runs[r].pc = "create"
    /\ LET i == InsertCompany(companies, runs[r].job_data)
       IN  /\ companies' = i.companies
           /\ runs' = [runs EXCEPT ![r].company = i.company,
                                   ![r].created = i.created,
                                   ![r].lost = ~i.created,
                                   ![r].pc = IF i.raised THEN "done" ELSE "job_get"]
    /\ UNCHANGED jobs
    /\ UNCHANGED otherThanRace

JobMatch(rows, company_id, job_data) ==
    {j \in rows : /\ j.title = job_data.title
                  /\ j.company = company_id
                  /\ j.url = job_data.url}

\* the lookup of Job.objects.update_or_create (lines 122-133): one match is
\* updated, several raise MultipleObjectsReturned, none leads to the insert
JobGet(r) ==
    /\ runs[r].pc = "job_get"
    /\ LET match == JobMatch(jobs, runs[r].company, runs[r].job_data)
       IN  IF match = {}
           THEN /\ runs' = [runs EXCEPT ![r].pc = "job_create"]
                /\ UNCHANGED jobs
           ELSE /\ jobs' = UpsertJob(jobs, runs[r].company, runs[r].job_data, now)
                /\ runs' = [runs EXCEPT ![r].pc = "done",
                                        ![r].saved = Cardinality(match) = 1]
    /\ UNCHANGED companies
    /\ UNCHANGED otherThanRace

\* its insert; the Job table has no unique key beside the id
JobCreate(r) ==
    /\ runs[r].pc = "job_create"
    /\ jobs' = jobs \cup
         {[id |-> Cardinality(jobs) + 1, title |-> runs[r].job_data.title,
           company |-> runs[r].company, url |-> runs[r].job_data.url,
           location |-> runs[r].job_data.location,
           description |-> runs[r].job_data.description, salary |-> "",
           source |-> runs[r].job_data.source,
           scraped_at |-> ScrapedAt(runs[r].job_data, now)]}
    /\ runs' = [runs EXCEPT ![r].pc = "done", ![r].saved = TRUE]
    /\ UNCHANGED companies
    /\ UNCHANGED otherThanRace

RaceNext ==
    \/ \E r \in RunIds : CompanyGet(r)
    \/ \E r \in RunIds : CompanyCreate(r)
    \/ \E r \in RunIds : JobGet(r)
    \/ \E r \in RunIds : JobCreate(r)

\* Two runs saving one posting each, interleaved statement by statement
SpecRace == RaceInit /\ [][RaceNext]_vars

\* C21: when both runs have finished their posting, exactly one Company row
\* has the name, both runs hold that row, at most one of them created it,
\* and each run's posting has its Job row.
C21_RaceKeepsOneCompany ==
    (runs # <<>> /\ \A r \in RunIds : runs[r].pc = "done") =>
        /\ Cardinality({c \in companies : c.name = "Acme"}) = 1
        /\ \A r \in RunIds :
              /\ runs[r].company \in {c.id : c \in companies}
              /\ runs[r].saved
              /\ JobMatch(jobs, runs[r].company, runs[r].job_data) # {}
        /\ Cardinality({r \in RunIds : runs[r].created}) <= 1
        /\ \A r \in RunIds :
              runs[r].lost => \E c \in companies : c.id = runs[r].company /\ c.name = "Acme"

\* both runs looked the company up before either created it: one created
\* it, the other lost the race, and both are done
C21_Witness ==
    /\ runs # <<>>
    /\ \A r \in RunIds : runs[r].pc = "done"
    /\ \E r \in RunIds : runs[r].created
    /\ \E r \in RunIds : runs[r].lost

----------------------------------------------------------------------------
(* Further properties of scrape_jobs_task *)

RECURSIVE SumOfSlices(_)
SumOfSlices(calls) ==
    IF calls = <<>> THEN 0 ELSE Head(calls).max_jobs + SumOfSlices(Tail(calls))

\* C23: every step of the legacy loop handles the next source of the list
\* and no other; a call it makes carries the slice max_jobs // len(sources),
\* and the slices handed out sum to at most max_jobs; a source that raised is
\* appended to errors and recorded with success False; and the loop is left
\* only when every source of the list has been handled.
C23_LegacySourcesInOrder ==
    [][(pc = "legacy_loop" /\ loc' # loc) =>
          LET n == Len(loc.sources)
              source == loc.sources[loc.i + 1]
              max_jobs == Get(Criteria, "max_jobs", 25)
          IN  IF pc' = "legacy_loop"
              THEN /\ loc'.i = loc.i + 1
                   /\ loc'.sources = loc.sources
                   /\ \/ loc'.calls = loc.calls
                      \/ loc'.calls = Append(loc.calls,
                             [source |-> source, max_jobs |-> max_jobs \div n])
                   /\ SumOfSlices(loc'.calls) <= max_jobs
                   /\ source \in DOMAIN loc'.source_results
                   /\ IF loc'.errors # loc.errors
                      THEN /\ Len(loc'.errors) = Len(loc.errors) + 1
                           /\ SubSeq(loc'.errors, 1, Len(loc.errors)) = loc.errors
                           /\ loc'.errors[Len(loc'.errors)].source = source
                           /\ ~loc'.source_results[source].success
                      ELSE loc'.source_results[source].success
              ELSE /\ loc.i = n
                   /\ \A k \in 1..n : loc.sources[k] \in DOMAIN loc.source_results]_vars

\* the first of two different sources raised and the second was scraped
C23_Witness ==
    /\ pc = "legacy_loop"
    /\ loc.i = 2
    /\ Len(loc.sources) = 2
    /\ loc.sources[1] # loc.sources[2]
    /\ Len(loc.errors) = 1
    /\ Len(loc.calls) = 2
    /\ ~loc.source_results[loc.sources[1]].success
    /\ loc.source_results[loc.sources[2]].success

----------------------------------------------------------------------------
(* save_to_django_db on a Job table that holds two rows with one identity  *)
(* key, as two concurrent runs saving the same posting leave it            *)
(* (JobCreate above: the table has no unique key beside the id).           *)

DuplicateUrl == "https://www.indeed.com/viewjob?jk=1"

DuplicateRows ==
    {[id |-> i, title |-> "Developer", company |-> 1, url |-> DuplicateUrl,
      location |-> "Remote", description |-> "Build things", salary |-> "",
      source |-> "Indeed", scraped_at |-> i] : i \in {1, 2}}

DuplicatesInit ==
    /\ companies = {[id |-> 1, name |-> "Acme", company_website |-> "",
                     company_email |-> ""]}
    /\ jobs = DuplicateRows
    /\ processed = <<>>
    /\ now = 10
    /\ runTable = <<>> /\ progressTable = {} /\ cleanup = <<>>
    /\ TaskIdle /\ ProgressIdle /\ CallIdle /\ ScrapeIdle /\ DetectIdle /\ UrlSourceIdle /\ FileIdle /\ EmailIdle /\ WebsiteIdle /\ SessionIdle /\ ViewIdle /\ RaceIdle /\ EnhanceIdle /\ BeatIdle /\ TallyIdle /\ StatsRunsIdle

\* save_to_django_db calls on such a table
SpecDuplicates == DuplicatesInit /\ [][DbNext]_vars

\* the posting has the identity key of the two rows
MatchesBoth(p) ==
    p.title = "Developer" /\ p.company = "Acme" /\ p.url = DuplicateUrl

\* C24: after a posting whose key matches both rows has been processed, the
\* more recently scraped row carries the posting's source and scraped_at,
\* the other row is as it was and no row has been added for the key; and the
\* postings after it in the batch have been processed.
C24_UpdatesMostRecentMatch ==
    \A k \in 1..Len(processed) :
        (/\ MatchesBoth(processed[k])
         /\ processed[k].scraped_at # 0
         /\ \A m \in (k + 1)..Len(processed) : ~MatchesBoth(processed[m])) =>
            /\ \E r \in jobs : /\ r.id = 2
                               /\ r.source = processed[k].source
                               /\ r.scraped_at = processed[k].scraped_at
            /\ \E r \in DuplicateRows : r.id = 1 /\ r \in jobs
            /\ Cardinality({r \in jobs : r.title = "Developer" /\ r.company = 1
                                          /\ r.url = DuplicateUrl}) = 2

----------------------------------------------------------------------------
(* enhance_job_with_company_info of CompanyInfoExtractor *)

\* a key the posting does not have; "" is the value None
Absent == "<absent>"

\* the postings handed to the enhancement, by the three keys it touches
EnhancePostings ==
    [company : CompanyNames \cup {Absent},
     company_website : {Absent, "", "https://www.acme.com"},
     company_email : {Absent, "", "info@acme.com"}]

\* the result pages of the search engine seen during an enhancement
EnhanceResults == {<<>>} \cup {<<link>> : link \in ResultLinks}

NumEmailPages == 5      \* pages_to_check of extract_company_email

\* extract_company_email(website_url): firstHit is the first page of
\* pages_to_check on which _extract_email_from_page finds an address (0: on
\* none), raises whether a page request raises outside that function
ExtractCompanyEmail(website_url, firstHit, raises) ==
    IF website_url = "" THEN [checked |-> 0, email |-> ""]
    ELSE IF raises THEN [checked |-> 1, email |-> ""]
    ELSE IF firstHit = 0 THEN [checked |-> NumEmailPages, email |-> ""]
    ELSE [checked |-> firstHit, email |-> "info@acme.com"]

\* job_data.get('company')
GetCompany(job_data) == IF job_data.company = Absent THEN "" ELSE job_data.company

\* enhance_job_with_company_info(job_data)
EnhanceJobWithCompanyInfo(job_data, outcome, results, firstHit, raises) ==
    LET company_name == GetCompany(job_data)
    IN  IF company_name = ""
        THEN [job_data |-> job_data, requested |-> <<>>, checked |-> 0]
        ELSE LET website == SearchCompanyWebsite(company_name, outcome, results)
                 withSite == [job_data EXCEPT !.company_website = website.result]
             IN  IF website.result # ""
                 THEN LET email == ExtractCompanyEmail(website.result, firstHit,
                                                       raises)
                      IN  [job_data |-> [withSite EXCEPT
                                            !.company_email = email.email],
                           requested |-> website.requested,
                           checked |-> email.checked]
                 ELSE [job_data |-> [withSite EXCEPT !.company_email = ""],
                       requested |-> website.requested, checked |-> 0]

otherThanEnhance == <<taskVars, callVars, dbVars, cleanupVars, scrapeVars, detectVars, urlSourceVars, fileVars, emailVars, websiteVars, sessionVars, viewVars, raceVars, beatVars, tallyVars, statsRunsVars>>

EnhanceInit ==
    /\ enhanced = <<>>
    /\ TaskIdle /\ ProgressIdle /\ CallIdle /\ DbIdle /\ CleanupIdle /\ ScrapeIdle /\ DetectIdle /\ UrlSourceIdle /\ FileIdle /\ EmailIdle /\ WebsiteIdle /\ SessionIdle /\ ViewIdle /\ RaceIdle /\ BeatIdle /\ TallyIdle /\ StatsRunsIdle

\* one call of enhance_job_with_company_info
EnhanceJob ==
    /\ enhanced = <<>>
    /\ \E job_data \in EnhancePostings, outcome \in GoogleOutcomes,
          results \in EnhanceResults, firstHit \in 0..NumEmailPages,
          raises \in BOOLEAN :
          LET r == EnhanceJobWithCompanyInfo(job_data, outcome, results,
                                             firstHit, raises)
          IN  enhanced' = [given |-> job_data, returned |-> r.job_data,
                           requested |-> r.requested, checked |-> r.checked]
    /\ UNCHANGED otherThanEnhance

EnhanceNext == EnhanceJob

\* One enhance_job_with_company_info call
SpecEnhance == EnhanceInit /\ [][EnhanceNext]_vars

\* the company name is missing, empty, 'n/a' or 'unknown' in any letter case
PlaceholderCompany(job_data) ==
    \/ job_data.company \in {Absent, ""}
    \/ LowerName(job_data.company) \in {"n/a", "unknown"}

\* C25: for a posting whose company name is missing, empty, 'n/a' or
\* 'unknown' the enhancement requests no search page, checks no page for an
\* email and returns the posting as it was given; for every other posting the
\* returned company_email is non-empty only if a website was found.
C25_PlaceholderCompanyUntouched ==
    enhanced # <<>> =>
        IF PlaceholderCompany(enhanced.given)
        THEN /\ enhanced.requested = <<>>
             /\ enhanced.checked = 0
             /\ enhanced.returned = enhanced.given
        ELSE enhanced.returned.company_email \notin {Absent, ""} =>
                 enhanced.returned.company_website \notin {Absent, ""}

----------------------------------------------------------------------------
(* The periodic entries as the beat scheduler fires them: the PeriodicTask  *)
(* row schedule_scraping creates and the two entries of beat_schedule.  The *)
(* scheduler sends the entry's task name with its args and kwargs whenever  *)
(* the entry is enabled and its schedule is due; the worker looks the name  *)
(* up among the registered tasks and binds the arguments to its signature.  *)

BeatYears == 2          \* years the scheduler is followed through

\* the names under which the tasks of the project are registered
RegisteredTasks ==
    {"celery_tasks.scrape_jobs_task", "celery_tasks.cleanup_old_progress",
     "celery_tasks.cleanup_old_job_runs",
     "celery_tasks.update_scheduled_job_next_run",
     "SimpExtrac.celery.debug_task"}

\* app.conf.beat_schedule; 'every' in minutes
beat_schedule ==
    <<[name |-> "scheduled-scraping",
       task |-> "jobs.tasks.run_scheduled_scraping", every |-> 30],
      [name |-> "cleanup-old-results",
       task |-> "jobs.tasks.cleanup_old_results", every |-> 24 * 60]>>

\* the parameters of scrape_jobs_task beside self, and those without default
ScrapeJobsTaskParams == {"search_criteria", "scheduled_job_id", "user_id"}
ScrapeJobsTaskRequired == {"search_criteria"}

\* What the worker does with a message for 'task' carrying 'kwargs'.
Deliver(task, kwargs) ==
    IF task \notin RegisteredTasks
    THEN [outcome |-> "not_registered", search_criteria |-> <<>>]
    ELSE IF task # "celery_tasks.scrape_jobs_task"
    THEN [outcome |-> "started", search_criteria |-> <<>>]
    ELSE IF /\ DOMAIN kwargs \subseteq ScrapeJobsTaskParams
            /\ ScrapeJobsTaskRequired \subseteq DOMAIN kwargs
    THEN [outcome |-> "started", search_criteria |-> kwargs.search_criteria]
    ELSE [outcome |-> "type_error", search_criteria |-> <<>>]

\* the instants the scheduler wakes at: <<year, day of November, hour, minute>>
BeatInstants ==
    {<<y, d, h, 0>> : y \in 2026..(2026 + BeatYears - 1), d \in {2, 3},
                      h \in {8, 9, 10}}

\* minutes of an instant on one scale
MinutesOf(c) == (((c[1] - 2026) * 366 + c[2]) * 24 + c[3]) * 60 + c[4]

\* the weekday of an instant as crontab counts it (0 is Sunday): 2 November
\* 2026 is a Monday
DayOfWeek(c) ==
    ((c[2] - 1) + (c[1] - 2026) + (IF c[1] >= 2028 THEN 1 ELSE 0)) % 7

\* a crontab field matches a number
FieldMatches(field, n) ==
    \/ field = "*"
    \/ field = "28-31" /\ n \in 28..31
    \/ n \in ParseInt(field)

\* the schedule of a PeriodicTask row is due at instant c; last is the
\* instant of its last run (or of its creation)
IsDue(schedule, last, c) ==
    IF schedule.table = "interval"
    THEN MinutesOf(c) - MinutesOf(last) >= schedule.every
    ELSE /\ FieldMatches(schedule.minute, c[4])
         /\ FieldMatches(schedule.hour, c[3])
         /\ FieldMatches(schedule.day_of_month, c[2])
         /\ FieldMatches(schedule.month_of_year, 11)
         /\ \E i \in 1..Len(schedule.day_of_week) :
               FieldMatches(schedule.day_of_week[i], DayOfWeek(c))

\* the firing of one entry at instant c
Firing(kind, name, task, kwargs, c) ==
    [kind |-> kind, name |-> name, task |-> task, at |-> c,
     outcome |-> Deliver(task, kwargs).outcome,
     search_criteria |-> Deliver(task, kwargs).search_criteria]

\* the firings of the PeriodicTask rows at instant c
RECURSIVE PeriodicFirings(_, _, _, _)
PeriodicFirings(tasks, last, c, i) ==
    IF i > Len(tasks) THEN <<>>
    ELSE (IF tasks[i].enabled /\ IsDue(tasks[i].schedule, last, c)
          THEN <<Firing("periodic", tasks[i].name, tasks[i].task,
                        tasks[i].kwargs, c)>>
          ELSE <<>>) \o PeriodicFirings(tasks, last, c, i + 1)

\* the firings of the beat_schedule entries at instant c
RECURSIVE BootstrapFirings(_, _, _)
BootstrapFirings(last, c, i) ==
    IF i > Len(beat_schedule) THEN <<>>
    ELSE (IF MinutesOf(c) - MinutesOf(last[i]) >= beat_schedule[i].every
          THEN <<Firing("bootstrap", <<beat_schedule[i].name>>,
                        beat_schedule[i].task, <<>>, c)>>
          ELSE <<>>) \o BootstrapFirings(last, c, i + 1)

otherThanBeat == <<taskVars, callVars, dbVars, cleanupVars, scrapeVars, detectVars, urlSourceVars, fileVars, emailVars, websiteVars, sessionVars, viewVars, raceVars, enhanceVars, tallyVars, statsRunsVars>>

BeatInit ==
    /\ beat = <<>>
    /\ TaskIdle /\ ProgressIdle /\ CallIdle /\ DbIdle /\ CleanupIdle /\ ScrapeIdle /\ DetectIdle /\ UrlSourceIdle /\ FileIdle /\ EmailIdle /\ WebsiteIdle /\ SessionIdle /\ ViewIdle /\ RaceIdle /\ EnhanceIdle /\ TallyIdle /\ StatsRunsIdle

\* a schedule form is submitted to schedule_scraping on 3 November 2026
SubmitSchedule ==
    /\ beat = <<>>
    /\ \E form \in ScheduleForms \cup FragmentForms, clock \in Clock :
          LET r == ScheduleScrapingView(
                       Request("schedule_scraping", "POST", TRUE, form),
                       <<>>, {}, {}, clock, 1, TRUE)
              c == <<2026>> \o clock
          IN  beat' = [form |-> form, tasks |-> r.tasks, clock |-> c,
                       created |-> c, last |-> c,
                       started |-> [i \in 1..Len(beat_schedule) |-> c],
                       fired |-> <<>>]
    /\ UNCHANGED otherThanBeat

\* the scheduler wakes at the next instant and sends what is due
Tick ==
    /\ beat # <<>>
    /\ \E c \in BeatInstants :
          /\ MinutesOf(c) > MinutesOf(beat.clock)
          /\ \A d \in BeatInstants :
                MinutesOf(d) > MinutesOf(beat.clock) => MinutesOf(d) >= MinutesOf(c)
          /\ LET periodic == PeriodicFirings(beat.tasks, beat.last, c, 1)
                 bootstrap == BootstrapFirings(beat.started, c, 1)
             IN  beat' = [beat EXCEPT
                     !.clock = c,
                     !.last = IF periodic # <<>> THEN c ELSE @,
                     !.started = [i \in 1..Len(beat_schedule) |->
                                     IF MinutesOf(c) - MinutesOf(@[i])
                                            >= beat_schedule[i].every
                                     THEN c ELSE @[i]],
                     !.fired = @ \o periodic \o bootstrap]
    /\ UNCHANGED otherThanBeat

BeatNext == SubmitSchedule \/ Tick

\* One submitted schedule and the beat scheduler after it
SpecBeat == BeatInit /\ [][BeatNext]_vars

\* the instant a 'once' form names
OnceInstant(form) ==
    <<2026, DayNo(form.schedule_date),
      CHOOSE n \in ParseInt(form.schedule_time[1]) : TRUE,
      CHOOSE n \in ParseInt(form.schedule_time[2]) : TRUE>>

\* C26: the task of a schedule created with interval 'once' is fired only at
\* the date and time the form named, never at another instant (the same day
\* and month of a later year included).
C26_OnceFiresOnlyThen ==
    (beat # <<>> /\ beat.form.interval = "once") =>
        \A i \in 1..Len(beat.fired) :
            beat.fired[i].kind = "periodic" =>
                beat.fired[i].at = OnceInstant(beat.form)

\* C27: every firing of a periodic entry starts a registered task with
\* arguments it accepts: a PeriodicTask of schedule_scraping starts
\* scrape_jobs_task with search criteria carrying the submitted job title,
\* location and sources, and the entries of beat_schedule start their task.
C27_EntriesStartTheirTask ==
    beat # <<>> =>
        \A i \in 1..Len(beat.fired) :
            /\ beat.fired[i].outcome = "started"
            /\ beat.fired[i].kind = "periodic" =>
                  /\ beat.fired[i].search_criteria.job_title = beat.form.job_title
                  /\ beat.fired[i].search_criteria.location = beat.form.location
                  /\ beat.fired[i].search_criteria.sources = <<"indeed">>

----------------------------------------------------------------------------
(* jobs_found and companies_found of a scrape_jobs_task run: the difference *)
(* of Job.objects.count() / Company.objects.count() after and before the    *)
(* scrape, while another run saves postings and delete_job requests arrive. *)

MaxInterference == 1    \* saves of another run, and delete_job requests

\* the postings a run saves: complete records of two companies
TallyPostings ==
    {p \in Postings : /\ p.title = "Developer" /\ p.scraped_at = 0
                      /\ p.company_website = "" /\ p.company_email = ""}

otherThanTally == <<taskVars, callVars, processed, cleanupVars, scrapeVars, detectVars, urlSourceVars, fileVars, emailVars, websiteVars, sessionVars, viewVars, raceVars, enhanceVars, beatVars, statsRunsVars>>

TallyInit ==
    /\ \E max_jobs \in 1..MaxJobsBound, stored \in SeqsUpTo(TallyPostings, 1) :
          /\ tally = [pc |-> "before", max_jobs |-> max_jobs,
                      jobs_before |-> 0, companies_before |-> 0,
                      saved |-> 0, own_jobs |-> 0, own_companies |-> 0,
                      others |-> 0, deleted |-> 0,
                      jobs_found |-> 0, companies_found |-> 0]
          /\ companies = SaveAll([companies |-> {}, jobs |-> {}], stored, 9).companies
          /\ jobs = SaveAll([companies |-> {}, jobs |-> {}], stored, 9).jobs
    /\ processed = <<>>
    /\ now = 10
    /\ runTable = <<>> /\ progressTable = {} /\ cleanup = <<>>
    /\ TaskIdle /\ ProgressIdle /\ CallIdle /\ ScrapeIdle /\ DetectIdle /\ UrlSourceIdle /\ FileIdle /\ EmailIdle /\ WebsiteIdle /\ SessionIdle /\ ViewIdle /\ RaceIdle /\ EnhanceIdle /\ BeatIdle /\ StatsRunsIdle

\* jobs_before = Job.objects.count(); companies_before = Company.objects.count()
CountBefore ==
    /\ tally.pc = "before"
    /\ tally' = [tally EXCEPT !.pc = "scraping",
                              !.jobs_before = Cardinality(jobs),
                              !.companies_before = Cardinality(companies)]
    /\ UNCHANGED <<companies, jobs, now>>
    /\ UNCHANGED otherThanTally

\* the run's scraper saves one of its at most max_jobs postings
OwnSave ==
    /\ tally.pc = "scraping"
    /\ tally.saved < tally.max_jobs
    /\ \E job_data \in TallyPostings :
          LET db == SaveOne([companies |-> companies, jobs |-> jobs], job_data, now)
          IN  /\ companies' = db.companies
              /\ jobs' = db.jobs
              /\ tally' = [tally EXCEPT
                    !.saved = @ + 1,
                    !.own_jobs = @ + Cardinality(db.jobs) - Cardinality(jobs),
                    !.own_companies = @ + Cardinality(db.companies)
                                        - Cardinality(companies)]
    /\ UNCHANGED now
    /\ UNCHANGED otherThanTally

\* jobs_after, companies_after and the two differences the run records
CountAfter ==
    /\ tally.pc = "scraping"
    /\ tally' = [tally EXCEPT
          !.pc = "recorded",
          !.jobs_found = Cardinality(jobs) - tally.jobs_before,
          !.companies_found = Cardinality(companies) - tally.companies_before]
    /\ UNCHANGED <<companies, jobs, now>>
    /\ UNCHANGED otherThanTally

\* another scrape run saves a posting
OtherRunSave ==
    /\ tally.pc # "recorded"
    /\ tally.others < MaxInterference
    /\ \E job_data \in TallyPostings :
          LET db == SaveOne([companies |-> companies, jobs |-> jobs], job_data, now)
          IN  /\ companies' = db.companies
              /\ jobs' = db.jobs
    /\ tally' = [tally EXCEPT !.others = @ + 1]
    /\ UNCHANGED now
    /\ UNCHANGED otherThanTally

\* a delete_job request removes a Job row
DeleteJobRequest ==
    /\ tally.pc # "recorded"
    /\ tally.deleted < MaxInterference
    /\ \E job \in jobs : jobs' = jobs \ {job}
    /\ tally' = [tally EXCEPT !.deleted = @ + 1]
    /\ UNCHANGED <<companies, now>>
    /\ UNCHANGED otherThanTally

TallyNext ==
    CountBefore \/ OwnSave \/ CountAfter \/ OtherRunSave \/ DeleteJobRequest

\* One run counting what it found beside other writers
SpecTally == TallyInit /\ [][TallyNext]_vars

\* C28: the jobs_found and companies_found a run records are the numbers of
\* Job and Company rows the run itself created, and lie between 0 and the
\* requested max_jobs, whatever other runs and delete_job requests do between
\* the two counts.
C28_FoundIsOwnRows ==
    tally.pc = "recorded" =>
        /\ tally.jobs_found = tally.own_jobs
        /\ tally.companies_found = tally.own_companies
        /\ tally.jobs_found \in 0..tally.max_jobs
        /\ tally.companies_found \in 0..tally.max_jobs

----------------------------------------------------------------------------
(* Two run_scraper_url_task executions for one source on one day, on the    *)
(* day's ScraperStats row.                                                  *)

otherThanStatsRuns == <<taskVars, callVars, dbVars, cleanupVars, scrapeVars, detectVars, control, urlTask, fileVars, emailVars, websiteVars, sessionVars, viewVars, raceVars, enhanceVars, beatVars, tallyVars>>

StatsRunsInit ==
    /\ \E source \in {"indeed", "linkedin"} :
          /\ statsRuns \in [RunIds -> [pc : {"get"}, source : {source},
                                       num_jobs : 1..MaxRequested,
                                       loaded : BOOLEAN, error : {""}]]
          /\ \A r \in RunIds : ~statsRuns[r].loaded
          /\ scraperStats \in SUBSET {NewStats(source)}
    /\ control = <<>>
    /\ urlTask = <<>>
    /\ TaskIdle /\ ProgressIdle /\ CallIdle /\ DbIdle /\ CleanupIdle /\ ScrapeIdle /\ DetectIdle /\ FileIdle /\ EmailIdle /\ WebsiteIdle /\ SessionIdle /\ ViewIdle /\ RaceIdle /\ EnhanceIdle /\ BeatIdle /\ TallyIdle

\* lines 62-72, get_or_create: the lookup of the day's row of the source
StatsGet(r) ==
    /\ statsRuns[r].pc = "get"
    /\ statsRuns' = [statsRuns EXCEPT
          ![r].pc = IF \E s \in scraperStats : s.source = statsRuns[r].source
                    THEN "loaded" ELSE "create",
          ![r].loaded = \E s \in scraperStats : s.source = statsRuns[r].source]
    /\ UNCHANGED scraperStats
    /\ UNCHANGED otherThanStatsRuns

\* lines 62-72, get_or_create: the insert after a lookup that found nothing;
\* unique_together refuses a second row of the (source, date), and the row
\* the other run inserted is fetched instead
StatsCreate(r) ==
    /\ statsRuns[r].pc = "create"
    /\ scraperStats' =
          IF \E s \in scraperStats : s.source = statsRuns[r].source
          THEN scraperStats
          ELSE scraperStats \cup {NewStats(statsRuns[r].source)}
    /\ statsRuns' = [statsRuns EXCEPT ![r].pc = "loaded", ![r].loaded = TRUE]
    /\ UNCHANGED otherThanStatsRuns

\* line 75: 'stats.jobs_requested += num_jobs' on the instance that was
\* loaded; the statement is outside the try block
AddRequested(r) ==
    /\ statsRuns[r].pc = "loaded"
    /\ "jobs_requested" \notin ScraperStatsAttrs
    /\ statsRuns' = [statsRuns EXCEPT ![r].pc = "raised",
                                      ![r].error = "AttributeError"]
    /\ UNCHANGED scraperStats
    /\ UNCHANGED otherThanStatsRuns

StatsRunsNext ==
    \/ \E r \in RunIds : StatsGet(r)
    \/ \E r \in RunIds : StatsCreate(r)
    \/ \E r \in RunIds : AddRequested(r)

\* Two run_scraper_url_task executions in any interleaving
SpecStatsRuns == StatsRunsInit /\ [][StatsRunsNext]_vars

\* the requested-jobs counter a row stores: the table has no such column
StoredRequested(row) ==
    IF "jobs_requested" \in ScraperStatsAttrs THEN row.jobs_requested ELSE 0

\* C29: when both runs have ended there is one ScraperStats row of the
\* source and day, and its requested-jobs counter is the sum of the two runs'
\* requested numbers.
C29_CountersAddUp ==
    (statsRuns # <<>> /\ \A r \in RunIds : statsRuns[r].pc = "raised") =>
        /\ Cardinality(scraperStats) = 1
        /\ \A row \in scraperStats :
              StoredRequested(row) = statsRuns[1].num_jobs + statsRuns[2].num_jobs

----------------------------------------------------------------------------
(* The stored progress of one scrape_jobs_task execution *)

\* no step of the task stores a smaller progress_percentage than is stored
StoredProgressGrows ==
    \A p \in taskProgress : \A q \in taskProgress' :
        q.progress_percentage >= p.progress_percentage

\* C30: within one execution of scrape_jobs_task the stored
\* progress_percentage never decreases, and when the task has ended, by
\* returning or by raising, the stored progress_percentage is 100.
C30_ProgressGrowsTo100 ==
    /\ [][StoredProgressGrows]_vars
    /\ [](Ended => \E p \in taskProgress : p.progress_percentage = 100)


====
